---- MODULE Spec2Model ----
(***************************************************************************)
(* The idea generator (scripts/generate.py) and the project iterator       *)
(* (scripts/iterate.py) as one state machine over the state document, the  *)
(* projects directory and the running iteration process.                   *)
(*                                                                         *)
(* A Python str is the sequence of its characters; a Python dict is a      *)
(* function whose domain is its set of keys; a list is a sequence.         *)
(***************************************************************************)
EXTENDS Integers, Sequences, FiniteSets, TLC

(***************************************************************************)
(* str methods and re.sub patterns used by the two scripts                 *)
(***************************************************************************)
ascii_lowercase == <<"a","b","c","d","e","f","g","h","i","j","k","l","m","n","o","p","q","r","s","t","u","v","w","x","y","z">>
ascii_uppercase == <<"A","B","C","D","E","F","G","H","I","J","K","L","M","N","O","P","Q","R","S","T","U","V","W","X","Y","Z">>
digits == <<"0","1","2","3","4","5","6","7","8","9">>
whitespace == {" ", "\t", "\n"}

Chars(s) == {s[i] : i \in DOMAIN s}

IndexIn(c, s) == CHOOSE i \in DOMAIN s : s[i] = c

char_lower(c) ==
  IF c \in Chars(ascii_uppercase) THEN ascii_lowercase[IndexIn(c, ascii_uppercase)] ELSE c

char_upper(c) ==
  IF c \in Chars(ascii_lowercase) THEN ascii_uppercase[IndexIn(c, ascii_lowercase)] ELSE c

\* str.lower()
lower(s) == IF s = <<>> THEN <<>> ELSE [i \in 1..Len(s) |-> char_lower(s[i])]

\* str.capitalize(): first character upper case, the rest lower case
capitalize(s) == IF s = <<>> THEN <<>> ELSE <<char_upper(s[1])>> \o lower(Tail(s))

\* str.lstrip(chars) and str.rstrip(chars)
lstrip(s, cs) ==
  LET keep == {i \in 1..Len(s) : s[i] \notin cs}
  IN  IF keep = {} THEN <<>>
      ELSE SubSeq(s, CHOOSE i \in keep : \A j \in keep : i <= j, Len(s))

rstrip(s, cs) ==
  LET keep == {i \in 1..Len(s) : s[i] \notin cs}
  IN  IF keep = {} THEN <<>>
      ELSE SubSeq(s, 1, CHOOSE i \in keep : \A j \in keep : j <= i)

\* str.strip(chars)
strip(s, cs) == rstrip(lstrip(s, cs), cs)

\* the k-th smallest member of a set of integers
Nth(S, k) == CHOOSE i \in S : Cardinality({j \in S : j < i}) = k - 1

\* str.split(): the maximal runs of non-whitespace characters, in order
split(s) ==
  LET starts == {i \in 1..Len(s) : s[i] \notin whitespace /\ (i = 1 \/ s[i - 1] \in whitespace)}
      ends == {i \in 1..Len(s) : s[i] \notin whitespace /\ (i = Len(s) \/ s[i + 1] \in whitespace)}
  IN  [k \in 1..Cardinality(starts) |-> SubSeq(s, Nth(starts, k), Nth(ends, k))]

RECURSIVE join(_, _)
\* sep.join(words)
join(sep, words) ==
  IF words = <<>> THEN <<>>
  ELSE IF Len(words) = 1 THEN words[1]
  ELSE words[1] \o sep \o join(sep, Tail(words))

RECURSIVE concat(_)
\* "".join(pieces)
concat(pieces) == IF pieces = <<>> THEN <<>> ELSE Head(pieces) \o concat(Tail(pieces))

RECURSIVE str_nat(_)
str_nat(n) ==
  IF n < 10 THEN <<digits[n + 1]>> ELSE str_nat(n \div 10) \o <<digits[(n % 10) + 1]>>

\* str(n) of an int, as an f-string renders it
str_int(n) == IF n < 0 THEN <<"-">> \o str_nat(-n) ELSE str_nat(n)

\* s[:n]
Take(s, n) == SubSeq(s, 1, IF Len(s) < n THEN Len(s) ELSE n)

\* needle in s (substring test)
Contains(s, needle) ==
  \E i \in 1..(Len(s) - Len(needle) + 1) :
    s[i] = needle[1] /\ SubSeq(s, i, i + Len(needle) - 1) = needle

\* x in list
InList(x, list) == \E i \in DOMAIN list : list[i] = x

\* {**a, **b}: the keys of both, b's value where both have the key
DictMerge(a, b) == b @@ a

\* None where a str is expected (a JSON null in a reply): a str is a sequence of
\* single characters, so no str equals it
None == <<"None">>

(***************************************************************************)
(* scripts/generate.py: the template registry and the digests              *)
(***************************************************************************)
\* IDEA_TEMPLATES: each category with its phrase templates; a template is the
\* sequence of its literal pieces and its {name} placeholders, in order.
IDEA_TEMPLATES ==
  <<
   [category |-> <<"D","e","v","e","l","o","p","e","r"," ","T","o","o","l","s">>,
    templates |-> <<
     <<[ph |-> FALSE, name |-> "", text |-> <<"A"," ","p","l","a","t","f","o","r","m"," ","t","h","a","t"," ","a","u","t","o","m","a","t","i","c","a","l","l","y"," ">>],
       [ph |-> TRUE, name |-> "action", text |-> <<"{","a","c","t","i","o","n","}">>],
       [ph |-> FALSE, name |-> "", text |-> <<" ","f","o","r"," ">>],
       [ph |-> TRUE, name |-> "audience", text |-> <<"{","a","u","d","i","e","n","c","e","}">>],
       [ph |-> FALSE, name |-> "", text |-> <<" ","b","y"," ","a","n","a","l","y","z","i","n","g"," ">>],
       [ph |-> TRUE, name |-> "data_source", text |-> <<"{","d","a","t","a","_","s","o","u","r","c","e","}">>]>>,
     <<[ph |-> FALSE, name |-> "", text |-> <<"A","n"," ","A","I","-","p","o","w","e","r","e","d"," ","t","o","o","l"," ","t","h","a","t"," ","h","e","l","p","s"," ","d","e","v","e","l","o","p","e","r","s"," ">>],
       [ph |-> TRUE, name |-> "solve_problem", text |-> <<"{","s","o","l","v","e","_","p","r","o","b","l","e","m","}">>],
       [ph |-> FALSE, name |-> "", text |-> <<" ","b","y"," ">>],
       [ph |-> TRUE, name |-> "method", text |-> <<"{","m","e","t","h","o","d","}">>]>>,
     <<[ph |-> FALSE, name |-> "", text |-> <<"A"," ","c","o","l","l","a","b","o","r","a","t","i","v","e"," ","w","o","r","k","s","p","a","c","e"," ","f","o","r"," ">>],
       [ph |-> TRUE, name |-> "team_type", text |-> <<"{","t","e","a","m","_","t","y","p","e","}">>],
       [ph |-> FALSE, name |-> "", text |-> <<" ","t","o"," ">>],
       [ph |-> TRUE, name |-> "accomplish_task", text |-> <<"{","a","c","c","o","m","p","l","i","s","h","_","t","a","s","k","}">>],
       [ph |-> FALSE, name |-> "", text |-> <<" ","i","n"," ","r","e","a","l","-","t","i","m","e">>]>>,
     <<[ph |-> FALSE, name |-> "", text |-> <<"A"," ","c","o","d","e"," ","i","n","t","e","l","l","i","g","e","n","c","e"," ","p","l","a","t","f","o","r","m"," ","t","h","a","t"," ">>],
       [ph |-> TRUE, name |-> "analyzes", text |-> <<"{","a","n","a","l","y","z","e","s","}">>],
       [ph |-> FALSE, name |-> "", text |-> <<" ","a","n","d"," ","p","r","o","v","i","d","e","s"," ">>],
       [ph |-> TRUE, name |-> "insights", text |-> <<"{","i","n","s","i","g","h","t","s","}">>]>>,
     <<[ph |-> FALSE, name |-> "", text |-> <<"A","n"," ","A","P","I"," ","m","o","n","i","t","o","r","i","n","g"," ","s","e","r","v","i","c","e"," ","t","h","a","t"," ">>],
       [ph |-> TRUE, name |-> "tracks", text |-> <<"{","t","r","a","c","k","s","}">>],
       [ph |-> FALSE, name |-> "", text |-> <<" ","a","n","d"," ">>],
       [ph |-> TRUE, name |-> "optimizes", text |-> <<"{","o","p","t","i","m","i","z","e","s","}">>],
       [ph |-> FALSE, name |-> "", text |-> <<" ","f","o","r"," ","b","e","t","t","e","r"," ","p","e","r","f","o","r","m","a","n","c","e">>]>>>>],
   [category |-> <<"S","a","a","S"," ","&"," ","P","r","o","d","u","c","t","i","v","i","t","y">>,
    templates |-> <<
     <<[ph |-> FALSE, name |-> "", text |-> <<"A","n"," ","i","n","t","e","l","l","i","g","e","n","t"," ","a","u","t","o","m","a","t","i","o","n"," ","p","l","a","t","f","o","r","m"," ","f","o","r"," ">>],
       [ph |-> TRUE, name |-> "industry", text |-> <<"{","i","n","d","u","s","t","r","y","}">>],
       [ph |-> FALSE, name |-> "", text |-> <<" ","t","h","a","t"," ">>],
       [ph |-> TRUE, name |-> "streamlines_process", text |-> <<"{","s","t","r","e","a","m","l","i","n","e","s","_","p","r","o","c","e","s","s","}">>]>>,
     <<[ph |-> FALSE, name |-> "", text |-> <<"A"," ","v","e","r","t","i","c","a","l"," ","S","a","a","S"," ","f","o","r"," ">>],
       [ph |-> TRUE, name |-> "niche_market", text |-> <<"{","n","i","c","h","e","_","m","a","r","k","e","t","}">>],
       [ph |-> FALSE, name |-> "", text |-> <<" ","p","r","o","f","e","s","s","i","o","n","a","l","s"," ","t","o"," ">>],
       [ph |-> TRUE, name |-> "manage_workflow", text |-> <<"{","m","a","n","a","g","e","_","w","o","r","k","f","l","o","w","}">>]>>,
     <<[ph |-> FALSE, name |-> "", text |-> <<"A"," ","d","a","t","a"," ","a","n","a","l","y","t","i","c","s"," ","d","a","s","h","b","o","a","r","d"," ","t","h","a","t"," ">>],
       [ph |-> TRUE, name |-> "aggregates", text |-> <<"{","a","g","g","r","e","g","a","t","e","s","}">>],
       [ph |-> FALSE, name |-> "", text |-> <<" ","a","n","d"," ">>],
       [ph |-> TRUE, name |-> "visualizes", text |-> <<"{","v","i","s","u","a","l","i","z","e","s","}">>],
       [ph |-> FALSE, name |-> "", text |-> <<" ","f","o","r"," ">>],
       [ph |-> TRUE, name |-> "decision_makers", text |-> <<"{","d","e","c","i","s","i","o","n","_","m","a","k","e","r","s","}">>]>>,
     <<[ph |-> FALSE, name |-> "", text |-> <<"A"," ","w","o","r","k","f","l","o","w"," ","o","r","c","h","e","s","t","r","a","t","i","o","n"," ","t","o","o","l"," ","t","h","a","t"," ">>],
       [ph |-> TRUE, name |-> "coordinates", text |-> <<"{","c","o","o","r","d","i","n","a","t","e","s","}">>],
       [ph |-> FALSE, name |-> "", text |-> <<" ","a","c","r","o","s","s"," ">>],
       [ph |-> TRUE, name |-> "systems", text |-> <<"{","s","y","s","t","e","m","s","}">>]>>,
     <<[ph |-> FALSE, name |-> "", text |-> <<"A","n"," ","A","I"," ","c","o","p","i","l","o","t"," ","f","o","r"," ">>],
       [ph |-> TRUE, name |-> "profession", text |-> <<"{","p","r","o","f","e","s","s","i","o","n","}">>],
       [ph |-> FALSE, name |-> "", text |-> <<" ","t","h","a","t"," ">>],
       [ph |-> TRUE, name |-> "assists_with", text |-> <<"{","a","s","s","i","s","t","s","_","w","i","t","h","}">>],
       [ph |-> FALSE, name |-> "", text |-> <<" ","u","s","i","n","g"," ">>],
       [ph |-> TRUE, name |-> "technology", text |-> <<"{","t","e","c","h","n","o","l","o","g","y","}">>]>>>>],
   [category |-> <<"N","i","c","h","e"," ","M","a","r","k","e","t","p","l","a","c","e","s">>,
    templates |-> <<
     <<[ph |-> FALSE, name |-> "", text |-> <<"A"," ","m","a","r","k","e","t","p","l","a","c","e"," ","c","o","n","n","e","c","t","i","n","g"," ">>],
       [ph |-> TRUE, name |-> "provider_type", text |-> <<"{","p","r","o","v","i","d","e","r","_","t","y","p","e","}">>],
       [ph |-> FALSE, name |-> "", text |-> <<" ","w","i","t","h"," ">>],
       [ph |-> TRUE, name |-> "consumer_type", text |-> <<"{","c","o","n","s","u","m","e","r","_","t","y","p","e","}">>],
       [ph |-> FALSE, name |-> "", text |-> <<" ","f","o","r"," ">>],
       [ph |-> TRUE, name |-> "specific_need", text |-> <<"{","s","p","e","c","i","f","i","c","_","n","e","e","d","}">>]>>,
     <<[ph |-> FALSE, name |-> "", text |-> <<"A"," ","B","2","B"," ","p","l","a","t","f","o","r","m"," ","w","h","e","r","e"," ">>],
       [ph |-> TRUE, name |-> "sellers", text |-> <<"{","s","e","l","l","e","r","s","}">>],
       [ph |-> FALSE, name |-> "", text |-> <<" ","c","a","n"," ">>],
       [ph |-> TRUE, name |-> "transact", text |-> <<"{","t","r","a","n","s","a","c","t","}">>],
       [ph |-> FALSE, name |-> "", text |-> <<" ","w","i","t","h"," ">>],
       [ph |-> TRUE, name |-> "buyers", text |-> <<"{","b","u","y","e","r","s","}">>],
       [ph |-> FALSE, name |-> "", text |-> <<" ","i","n"," ","t","h","e"," ">>],
       [ph |-> TRUE, name |-> "industry", text |-> <<"{","i","n","d","u","s","t","r","y","}">>],
       [ph |-> FALSE, name |-> "", text |-> <<" ","s","p","a","c","e">>]>>,
     <<[ph |-> FALSE, name |-> "", text |-> <<"A"," ","c","u","r","a","t","e","d"," ","n","e","t","w","o","r","k"," ","o","f"," ">>],
       [ph |-> TRUE, name |-> "specialist_type", text |-> <<"{","s","p","e","c","i","a","l","i","s","t","_","t","y","p","e","}">>],
       [ph |-> FALSE, name |-> "", text |-> <<" ","o","f","f","e","r","i","n","g"," ">>],
       [ph |-> TRUE, name |-> "premium_service", text |-> <<"{","p","r","e","m","i","u","m","_","s","e","r","v","i","c","e","}">>]>>,
     <<[ph |-> FALSE, name |-> "", text |-> <<"A"," ","p","e","e","r","-","t","o","-","p","e","e","r"," ","p","l","a","t","f","o","r","m"," ","f","o","r"," ">>],
       [ph |-> TRUE, name |-> "asset_type", text |-> <<"{","a","s","s","e","t","_","t","y","p","e","}">>],
       [ph |-> FALSE, name |-> "", text |-> <<" ","s","h","a","r","i","n","g"," ","i","n"," ">>],
       [ph |-> TRUE, name |-> "geographic_niche", text |-> <<"{","g","e","o","g","r","a","p","h","i","c","_","n","i","c","h","e","}">>]>>,
     <<[ph |-> FALSE, name |-> "", text |-> <<"A","n"," ","e","n","t","e","r","p","r","i","s","e"," ","m","a","r","k","e","t","p","l","a","c","e"," ","f","o","r"," ">>],
       [ph |-> TRUE, name |-> "resource_type", text |-> <<"{","r","e","s","o","u","r","c","e","_","t","y","p","e","}">>],
       [ph |-> FALSE, name |-> "", text |-> <<" ","w","i","t","h"," ","b","u","i","l","t","-","i","n"," ">>],
       [ph |-> TRUE, name |-> "value_add", text |-> <<"{","v","a","l","u","e","_","a","d","d","}">>]>>>>],
   [category |-> <<"I","n","f","r","a","s","t","r","u","c","t","u","r","e"," ","&"," ","D","e","v","O","p","s">>,
    templates |-> <<
     <<[ph |-> FALSE, name |-> "", text |-> <<"A"," ","c","l","o","u","d","-","n","a","t","i","v","e"," ">>],
       [ph |-> TRUE, name |-> "service_type", text |-> <<"{","s","e","r","v","i","c","e","_","t","y","p","e","}">>],
       [ph |-> FALSE, name |-> "", text |-> <<" ","t","h","a","t"," ">>],
       [ph |-> TRUE, name |-> "solves_problem", text |-> <<"{","s","o","l","v","e","s","_","p","r","o","b","l","e","m","}">>],
       [ph |-> FALSE, name |-> "", text |-> <<" ","w","i","t","h"," ">>],
       [ph |-> TRUE, name |-> "unique_approach", text |-> <<"{","u","n","i","q","u","e","_","a","p","p","r","o","a","c","h","}">>]>>,
     <<[ph |-> FALSE, name |-> "", text |-> <<"A","n"," ","o","b","s","e","r","v","a","b","i","l","i","t","y"," ","p","l","a","t","f","o","r","m"," ","f","o","c","u","s","e","d"," ","o","n"," ">>],
       [ph |-> TRUE, name |-> "specific_metric", text |-> <<"{","s","p","e","c","i","f","i","c","_","m","e","t","r","i","c","}">>],
       [ph |-> FALSE, name |-> "", text |-> <<" ","f","o","r"," ">>],
       [ph |-> TRUE, name |-> "tech_stack", text |-> <<"{","t","e","c","h","_","s","t","a","c","k","}">>]>>,
     <<[ph |-> FALSE, name |-> "", text |-> <<"A"," ","d","e","p","l","o","y","m","e","n","t"," ","a","u","t","o","m","a","t","i","o","n"," ","t","o","o","l"," ","t","h","a","t"," ">>],
       [ph |-> TRUE, name |-> "simplifies", text |-> <<"{","s","i","m","p","l","i","f","i","e","s","}">>],
       [ph |-> FALSE, name |-> "", text |-> <<" ","f","o","r"," ">>],
       [ph |-> TRUE, name |-> "target_audience", text |-> <<"{","t","a","r","g","e","t","_","a","u","d","i","e","n","c","e","}">>]>>,
     <<[ph |-> FALSE, name |-> "", text |-> <<"A"," ","s","e","c","u","r","i","t","y"," ","s","c","a","n","n","i","n","g"," ","s","e","r","v","i","c","e"," ","t","h","a","t"," ","d","e","t","e","c","t","s"," ">>],
       [ph |-> TRUE, name |-> "threat_type", text |-> <<"{","t","h","r","e","a","t","_","t","y","p","e","}">>],
       [ph |-> FALSE, name |-> "", text |-> <<" ","a","n","d"," ","p","r","e","v","e","n","t","s"," ">>],
       [ph |-> TRUE, name |-> "risk_type", text |-> <<"{","r","i","s","k","_","t","y","p","e","}">>],
       [ph |-> FALSE, name |-> "", text |-> <<" ","i","n"," ">>],
       [ph |-> TRUE, name |-> "environment", text |-> <<"{","e","n","v","i","r","o","n","m","e","n","t","}">>]>>,
     <<[ph |-> FALSE, name |-> "", text |-> <<"A","n"," ","i","n","f","r","a","s","t","r","u","c","t","u","r","e","-","a","s","-","c","o","d","e"," ","s","o","l","u","t","i","o","n"," ","t","h","a","t"," ">>],
       [ph |-> TRUE, name |-> "enables", text |-> <<"{","e","n","a","b","l","e","s","}">>],
       [ph |-> FALSE, name |-> "", text |-> <<" ","t","h","r","o","u","g","h"," ">>],
       [ph |-> TRUE, name |-> "innovation", text |-> <<"{","i","n","n","o","v","a","t","i","o","n","}">>]>>>>],
   [category |-> <<"A","I"," ","&"," ","M","a","c","h","i","n","e"," ","L","e","a","r","n","i","n","g">>,
    templates |-> <<
     <<[ph |-> FALSE, name |-> "", text |-> <<"A","n"," ","M","L"," ","m","o","d","e","l"," ","m","a","r","k","e","t","p","l","a","c","e"," ","f","o","r"," ">>],
       [ph |-> TRUE, name |-> "use_case", text |-> <<"{","u","s","e","_","c","a","s","e","}">>],
       [ph |-> FALSE, name |-> "", text |-> <<" ","w","i","t","h"," ">>],
       [ph |-> TRUE, name |-> "differentiator", text |-> <<"{","d","i","f","f","e","r","e","n","t","i","a","t","o","r","}">>]>>,
     <<[ph |-> FALSE, name |-> "", text |-> <<"A","n"," ","A","I"," ","t","r","a","i","n","i","n","g"," ","p","l","a","t","f","o","r","m"," ","o","p","t","i","m","i","z","e","d"," ","f","o","r"," ">>],
       [ph |-> TRUE, name |-> "model_type", text |-> <<"{","m","o","d","e","l","_","t","y","p","e","}">>],
       [ph |-> FALSE, name |-> "", text |-> <<" ","o","n"," ">>],
       [ph |-> TRUE, name |-> "data_type", text |-> <<"{","d","a","t","a","_","t","y","p","e","}">>]>>,
     <<[ph |-> FALSE, name |-> "", text |-> <<"A"," ","n","o","-","c","o","d","e"," ","M","L"," ","t","o","o","l"," ","t","h","a","t"," ","l","e","t","s"," ">>],
       [ph |-> TRUE, name |-> "users", text |-> <<"{","u","s","e","r","s","}">>],
       [ph |-> FALSE, name |-> "", text |-> <<" ","b","u","i","l","d"," ">>],
       [ph |-> TRUE, name |-> "applications", text |-> <<"{","a","p","p","l","i","c","a","t","i","o","n","s","}">>],
       [ph |-> FALSE, name |-> "", text |-> <<" ","w","i","t","h","o","u","t"," ">>],
       [ph |-> TRUE, name |-> "expertise", text |-> <<"{","e","x","p","e","r","t","i","s","e","}">>]>>,
     <<[ph |-> FALSE, name |-> "", text |-> <<"A","n"," ","A","I","-","p","o","w","e","r","e","d"," ">>],
       [ph |-> TRUE, name |-> "domain", text |-> <<"{","d","o","m","a","i","n","}">>],
       [ph |-> FALSE, name |-> "", text |-> <<" ","a","s","s","i","s","t","a","n","t"," ","t","h","a","t"," ">>],
       [ph |-> TRUE, name |-> "capability", text |-> <<"{","c","a","p","a","b","i","l","i","t","y","}">>],
       [ph |-> FALSE, name |-> "", text |-> <<" ","u","s","i","n","g"," ">>],
       [ph |-> TRUE, name |-> "technique", text |-> <<"{","t","e","c","h","n","i","q","u","e","}">>]>>,
     <<[ph |-> FALSE, name |-> "", text |-> <<"A"," ","s","y","n","t","h","e","t","i","c"," ","d","a","t","a"," ","g","e","n","e","r","a","t","i","o","n"," ","p","l","a","t","f","o","r","m"," ","f","o","r"," ">>],
       [ph |-> TRUE, name |-> "industry", text |-> <<"{","i","n","d","u","s","t","r","y","}">>],
       [ph |-> FALSE, name |-> "", text |-> <<" ","c","o","m","p","l","i","a","n","c","e"," ","a","n","d"," ">>],
       [ph |-> TRUE, name |-> "purpose", text |-> <<"{","p","u","r","p","o","s","e","}">>]>>>>],
   [category |-> <<"F","i","n","t","e","c","h"," ","&"," ","B","u","s","i","n","e","s","s">>,
    templates |-> <<
     <<[ph |-> FALSE, name |-> "", text |-> <<"A"," ","p","a","y","m","e","n","t"," ","i","n","f","r","a","s","t","r","u","c","t","u","r","e"," ","f","o","r"," ">>],
       [ph |-> TRUE, name |-> "market_segment", text |-> <<"{","m","a","r","k","e","t","_","s","e","g","m","e","n","t","}">>],
       [ph |-> FALSE, name |-> "", text |-> <<" ","w","i","t","h"," ">>],
       [ph |-> TRUE, name |-> "innovative_feature", text |-> <<"{","i","n","n","o","v","a","t","i","v","e","_","f","e","a","t","u","r","e","}">>]>>,
     <<[ph |-> FALSE, name |-> "", text |-> <<"A","n"," ","a","u","t","o","m","a","t","e","d"," ">>],
       [ph |-> TRUE, name |-> "financial_process", text |-> <<"{","f","i","n","a","n","c","i","a","l","_","p","r","o","c","e","s","s","}">>],
       [ph |-> FALSE, name |-> "", text |-> <<" ","p","l","a","t","f","o","r","m"," ","f","o","r"," ">>],
       [ph |-> TRUE, name |-> "business_type", text |-> <<"{","b","u","s","i","n","e","s","s","_","t","y","p","e","}">>]>>,
     <<[ph |-> FALSE, name |-> "", text |-> <<"A"," ","c","o","m","p","l","i","a","n","c","e","-","a","s","-","a","-","s","e","r","v","i","c","e"," ","t","o","o","l"," ","f","o","r"," ">>],
       [ph |-> TRUE, name |-> "regulation", text |-> <<"{","r","e","g","u","l","a","t","i","o","n","}">>],
       [ph |-> FALSE, name |-> "", text |-> <<" ","i","n"," ">>],
       [ph |-> TRUE, name |-> "industry", text |-> <<"{","i","n","d","u","s","t","r","y","}">>]>>,
     <<[ph |-> FALSE, name |-> "", text |-> <<"A","n"," ","e","m","b","e","d","d","e","d"," ","f","i","n","a","n","c","e"," ","s","o","l","u","t","i","o","n"," ","t","h","a","t"," ">>],
       [ph |-> TRUE, name |-> "enables", text |-> <<"{","e","n","a","b","l","e","s","}">>],
       [ph |-> FALSE, name |-> "", text |-> <<" ","f","o","r"," ">>],
       [ph |-> TRUE, name |-> "platform_type", text |-> <<"{","p","l","a","t","f","o","r","m","_","t","y","p","e","}">>]>>,
     <<[ph |-> FALSE, name |-> "", text |-> <<"A"," ","t","r","e","a","s","u","r","y"," ","m","a","n","a","g","e","m","e","n","t"," ","s","y","s","t","e","m"," ","f","o","r"," ">>],
       [ph |-> TRUE, name |-> "company_size", text |-> <<"{","c","o","m","p","a","n","y","_","s","i","z","e","}">>],
       [ph |-> FALSE, name |-> "", text |-> <<" ","w","i","t","h"," ">>],
       [ph |-> TRUE, name |-> "ai_capability", text |-> <<"{","a","i","_","c","a","p","a","b","i","l","i","t","y","}">>]>>>>]
  >>

\* feature_templates: category -> feature pool.
feature_templates ==
  [c \in {<<"D","e","v","e","l","o","p","e","r"," ","T","o","o","l","s">>,
      <<"S","a","a","S"," ","&"," ","P","r","o","d","u","c","t","i","v","i","t","y">>,
      <<"N","i","c","h","e"," ","M","a","r","k","e","t","p","l","a","c","e","s">>,
      <<"I","n","f","r","a","s","t","r","u","c","t","u","r","e"," ","&"," ","D","e","v","O","p","s">>,
      <<"A","I"," ","&"," ","M","a","c","h","i","n","e"," ","L","e","a","r","n","i","n","g">>,
      <<"F","i","n","t","e","c","h"," ","&"," ","B","u","s","i","n","e","s","s">>} |->
   CASE c = <<"D","e","v","e","l","o","p","e","r"," ","T","o","o","l","s">> ->
       <<<<"I","n","t","e","l","l","i","g","e","n","t"," ","c","o","d","e"," ","a","n","a","l","y","s","i","s">>,
         <<"R","e","a","l","-","t","i","m","e"," ","c","o","l","l","a","b","o","r","a","t","i","o","n">>,
         <<"C","I","/","C","D"," ","i","n","t","e","g","r","a","t","i","o","n">>,
         <<"C","u","s","t","o","m"," ","r","e","p","o","r","t","i","n","g"," ","d","a","s","h","b","o","a","r","d","s">>,
         <<"A","P","I","-","f","i","r","s","t"," ","a","r","c","h","i","t","e","c","t","u","r","e">>>>
     [] c = <<"S","a","a","S"," ","&"," ","P","r","o","d","u","c","t","i","v","i","t","y">> ->
       <<<<"A","u","t","o","m","a","t","e","d"," ","w","o","r","k","f","l","o","w","s">>,
         <<"A","d","v","a","n","c","e","d"," ","a","n","a","l","y","t","i","c","s">>,
         <<"T","h","i","r","d","-","p","a","r","t","y"," ","i","n","t","e","g","r","a","t","i","o","n","s">>,
         <<"R","o","l","e","-","b","a","s","e","d"," ","a","c","c","e","s","s"," ","c","o","n","t","r","o","l">>,
         <<"M","o","b","i","l","e","-","f","i","r","s","t"," ","d","e","s","i","g","n">>>>
     [] c = <<"N","i","c","h","e"," ","M","a","r","k","e","t","p","l","a","c","e","s">> ->
       <<<<"V","e","r","i","f","i","e","d"," ","u","s","e","r"," ","p","r","o","f","i","l","e","s">>,
         <<"E","s","c","r","o","w"," ","p","a","y","m","e","n","t"," ","s","y","s","t","e","m">>,
         <<"R","a","t","i","n","g"," ","a","n","d"," ","r","e","v","i","e","w"," ","s","y","s","t","e","m">>,
         <<"A","d","v","a","n","c","e","d"," ","s","e","a","r","c","h"," ","a","n","d"," ","f","i","l","t","e","r","s">>,
         <<"T","r","a","n","s","a","c","t","i","o","n"," ","d","i","s","p","u","t","e"," ","r","e","s","o","l","u","t","i","o","n">>>>
     [] c = <<"I","n","f","r","a","s","t","r","u","c","t","u","r","e"," ","&"," ","D","e","v","O","p","s">> ->
       <<<<"A","u","t","o","-","s","c","a","l","i","n","g">>,
         <<"M","u","l","t","i","-","c","l","o","u","d"," ","s","u","p","p","o","r","t">>,
         <<"B","u","i","l","t","-","i","n"," ","m","o","n","i","t","o","r","i","n","g">>,
         <<"Z","e","r","o","-","d","o","w","n","t","i","m","e"," ","d","e","p","l","o","y","m","e","n","t","s">>,
         <<"I","n","f","r","a","s","t","r","u","c","t","u","r","e"," ","a","s"," ","C","o","d","e">>>>
     [] c = <<"A","I"," ","&"," ","M","a","c","h","i","n","e"," ","L","e","a","r","n","i","n","g">> ->
       <<<<"P","r","e","-","t","r","a","i","n","e","d"," ","m","o","d","e","l","s">>,
         <<"C","u","s","t","o","m"," ","t","r","a","i","n","i","n","g"," ","p","i","p","e","l","i","n","e","s">>,
         <<"R","e","a","l","-","t","i","m","e"," ","i","n","f","e","r","e","n","c","e">>,
         <<"M","o","d","e","l"," ","v","e","r","s","i","o","n","i","n","g">>,
         <<"E","x","p","l","a","i","n","a","b","i","l","i","t","y"," ","t","o","o","l","s">>>>
     [] c = <<"F","i","n","t","e","c","h"," ","&"," ","B","u","s","i","n","e","s","s">> ->
       <<<<"B","a","n","k","-","l","e","v","e","l"," ","s","e","c","u","r","i","t","y">>,
         <<"A","u","t","o","m","a","t","e","d"," ","r","e","c","o","n","c","i","l","i","a","t","i","o","n">>,
         <<"M","u","l","t","i","-","c","u","r","r","e","n","c","y"," ","s","u","p","p","o","r","t">>,
         <<"C","o","m","p","l","i","a","n","c","e"," ","r","e","p","o","r","t","i","n","g">>,
         <<"R","E","S","T","f","u","l"," ","A","P","I"," ","a","c","c","e","s","s">>>>]

monetization_options ==
  <<<<"S","u","b","s","c","r","i","p","t","i","o","n","-","b","a","s","e","d"," ","p","r","i","c","i","n","g"," ","(","B","a","s","i","c","/","P","r","o","/","E","n","t","e","r","p","r","i","s","e"," ","t","i","e","r","s",")">>,
    <<"U","s","a","g","e","-","b","a","s","e","d"," ","p","r","i","c","i","n","g"," ","w","i","t","h"," ","f","r","e","e"," ","t","i","e","r">>,
    <<"T","r","a","n","s","a","c","t","i","o","n"," ","f","e","e","s"," ","o","n"," ","p","l","a","t","f","o","r","m"," ","a","c","t","i","v","i","t","y">>,
    <<"F","r","e","e","m","i","u","m"," ","m","o","d","e","l"," ","w","i","t","h"," ","p","a","i","d"," ","a","d","v","a","n","c","e","d"," ","f","e","a","t","u","r","e","s">>,
    <<"E","n","t","e","r","p","r","i","s","e"," ","l","i","c","e","n","s","i","n","g"," ","w","i","t","h"," ","c","u","s","t","o","m"," ","S","L","A","s">>,
    <<"P","e","r","-","s","e","a","t"," ","p","r","i","c","i","n","g"," ","f","o","r"," ","t","e","a","m"," ","a","c","c","o","u","n","t","s">>>>

audience_options ==
  <<<<"E","n","t","e","r","p","r","i","s","e"," ","d","e","v","e","l","o","p","m","e","n","t"," ","t","e","a","m","s">>,
    <<"F","a","s","t","-","g","r","o","w","i","n","g"," ","s","t","a","r","t","u","p","s">>,
    <<"S","M","B"," ","o","w","n","e","r","s"," ","a","n","d"," ","o","p","e","r","a","t","o","r","s">>,
    <<"D","e","v","O","p","s"," ","a","n","d"," ","p","l","a","t","f","o","r","m"," ","e","n","g","i","n","e","e","r","s">>,
    <<"P","r","o","d","u","c","t"," ","a","n","d"," ","e","n","g","i","n","e","e","r","i","n","g"," ","l","e","a","d","e","r","s">>,
    <<"I","n","d","u","s","t","r","y","-","s","p","e","c","i","f","i","c"," ","p","r","o","f","e","s","s","i","o","n","a","l","s">>>>

tech_options ==
  <<<<"C","l","o","u","d","-","n","a","t","i","v","e"," ","a","r","c","h","i","t","e","c","t","u","r","e"," ","w","i","t","h"," ","m","i","c","r","o","s","e","r","v","i","c","e","s"," ","a","n","d"," ","e","v","e","n","t","-","d","r","i","v","e","n"," ","d","e","s","i","g","n">>,
    <<"S","e","r","v","e","r","l","e","s","s"," ","b","a","c","k","e","n","d"," ","w","i","t","h"," ","G","r","a","p","h","Q","L"," ","A","P","I"," ","a","n","d"," ","R","e","a","c","t"," ","f","r","o","n","t","e","n","d">>,
    <<"K","u","b","e","r","n","e","t","e","s","-","b","a","s","e","d"," ","p","l","a","t","f","o","r","m"," ","w","i","t","h"," ","d","i","s","t","r","i","b","u","t","e","d"," ","d","a","t","a"," ","p","r","o","c","e","s","s","i","n","g">>,
    <<"A","I","/","M","L"," ","p","i","p","e","l","i","n","e"," ","u","s","i","n","g"," ","m","o","d","e","r","n"," ","t","r","a","n","s","f","o","r","m","e","r"," ","m","o","d","e","l","s"," ","a","n","d"," ","v","e","c","t","o","r"," ","d","a","t","a","b","a","s","e","s">>,
    <<"R","e","a","l","-","t","i","m","e"," ","c","o","l","l","a","b","o","r","a","t","i","o","n"," ","u","s","i","n","g"," ","W","e","b","S","o","c","k","e","t","s"," ","a","n","d"," ","C","R","D","T","s">>,
    <<"M","u","l","t","i","-","t","e","n","a","n","t"," ","S","a","a","S"," ","w","i","t","h"," ","P","o","s","t","g","r","e","S","Q","L"," ","a","n","d"," ","R","e","d","i","s"," ","c","a","c","h","i","n","g">>>>

\* IDEA_VARIABLES: placeholder name -> candidate values.
IDEA_VARIABLES ==
  [n \in {"action", "audience", "data_source", "solve_problem", "method", "team_type", "accomplish_task", "analyzes", "insights", "tracks", "optimizes", "threat_type", "risk_type", "industry", "streamlines_process", "niche_market", "manage_workflow", "aggregates", "visualizes", "decision_makers", "coordinates", "systems", "profession", "assists_with", "technology", "provider_type", "consumer_type", "specific_need", "sellers", "transact", "buyers", "specialist_type", "premium_service", "asset_type", "geographic_niche", "resource_type", "value_add", "service_type", "solves_problem", "unique_approach", "specific_metric", "tech_stack", "simplifies", "target_audience", "environment", "enables", "innovation", "use_case", "differentiator", "model_type", "data_type", "users", "applications", "expertise", "domain", "capability", "technique", "purpose", "market_segment", "innovative_feature", "financial_process", "business_type", "regulation", "platform_type", "company_size", "ai_capability"} |->
   CASE 
n = "action" -> <<<<"o","p","t","i","m","i","z","e","s"," ","p","e","r","f","o","r","m","a","n","c","e">>,
       <<"d","e","t","e","c","t","s"," ","v","u","l","n","e","r","a","b","i","l","i","t","i","e","s">>,
       <<"r","e","f","a","c","t","o","r","s"," ","l","e","g","a","c","y"," ","c","o","d","e">>,
       <<"g","e","n","e","r","a","t","e","s"," ","d","o","c","u","m","e","n","t","a","t","i","o","n">>,
       <<"m","a","n","a","g","e","s"," ","d","e","p","e","n","d","e","n","c","i","e","s">>>>
     [] n = "audience" -> <<<<"e","n","t","e","r","p","r","i","s","e"," ","t","e","a","m","s">>,
       <<"o","p","e","n","-","s","o","u","r","c","e"," ","m","a","i","n","t","a","i","n","e","r","s">>,
       <<"s","t","a","r","t","u","p"," ","f","o","u","n","d","e","r","s">>,
       <<"s","c","a","l","i","n","g"," ","c","o","m","p","a","n","i","e","s">>,
       <<"r","e","m","o","t","e"," ","t","e","a","m","s">>>>
     [] n = "data_source" -> <<<<"G","i","t","H","u","b"," ","r","e","p","o","s","i","t","o","r","i","e","s">>,
       <<"p","r","o","d","u","c","t","i","o","n"," ","l","o","g","s">>,
       <<"A","P","I"," ","t","r","a","f","f","i","c">>,
       <<"u","s","e","r"," ","b","e","h","a","v","i","o","r"," ","p","a","t","t","e","r","n","s">>,
       <<"i","n","f","r","a","s","t","r","u","c","t","u","r","e"," ","m","e","t","r","i","c","s">>>>
     [] n = "solve_problem" -> <<<<"r","e","d","u","c","e"," ","t","e","c","h","n","i","c","a","l"," ","d","e","b","t">>,
       <<"p","r","e","v","e","n","t"," ","s","e","c","u","r","i","t","y"," ","b","r","e","a","c","h","e","s">>,
       <<"o","p","t","i","m","i","z","e"," ","c","l","o","u","d"," ","c","o","s","t","s">>,
       <<"i","m","p","r","o","v","e"," ","c","o","d","e"," ","q","u","a","l","i","t","y">>,
       <<"a","c","c","e","l","e","r","a","t","e"," ","d","e","p","l","o","y","m","e","n","t","s">>>>
     [] n = "method" -> <<<<"M","L","-","p","o","w","e","r","e","d"," ","s","u","g","g","e","s","t","i","o","n","s">>,
       <<"s","t","a","t","i","c"," ","a","n","a","l","y","s","i","s">>,
       <<"r","u","n","t","i","m","e"," ","p","r","o","f","i","l","i","n","g">>,
       <<"c","o","l","l","a","b","o","r","a","t","i","v","e"," ","r","e","v","i","e","w","s">>,
       <<"a","u","t","o","m","a","t","e","d"," ","t","e","s","t","i","n","g">>>>
     [] n = "team_type" -> <<<<"d","i","s","t","r","i","b","u","t","e","d"," ","e","n","g","i","n","e","e","r","i","n","g">>,
       <<"p","r","o","d","u","c","t">>,
       <<"s","e","c","u","r","i","t","y">>,
       <<"D","e","v","O","p","s">>,
       <<"d","a","t","a"," ","s","c","i","e","n","c","e">>>>
     [] n = "accomplish_task" -> <<<<"d","e","b","u","g"," ","c","o","m","p","l","e","x"," ","s","y","s","t","e","m","s">>,
       <<"a","r","c","h","i","t","e","c","t"," ","s","c","a","l","a","b","l","e"," ","s","o","l","u","t","i","o","n","s">>,
       <<"m","a","n","a","g","e"," ","i","n","c","i","d","e","n","t","s">>,
       <<"p","l","a","n"," ","s","p","r","i","n","t","s">>,
       <<"r","e","v","i","e","w"," ","p","u","l","l"," ","r","e","q","u","e","s","t","s">>>>
     [] n = "analyzes" -> <<<<"d","e","p","e","n","d","e","n","c","y"," ","c","h","a","i","n","s">>,
       <<"p","e","r","f","o","r","m","a","n","c","e"," ","b","o","t","t","l","e","n","e","c","k","s">>,
       <<"s","e","c","u","r","i","t","y"," ","s","u","r","f","a","c","e","s">>,
       <<"c","o","d","e"," ","c","o","m","p","l","e","x","i","t","y">>,
       <<"A","P","I"," ","c","o","n","t","r","a","c","t","s">>>>
     [] n = "insights" -> <<<<"a","c","t","i","o","n","a","b","l","e"," ","r","e","c","o","m","m","e","n","d","a","t","i","o","n","s">>,
       <<"c","o","s","t","-","s","a","v","i","n","g"," ","o","p","p","o","r","t","u","n","i","t","i","e","s">>,
       <<"r","i","s","k"," ","a","s","s","e","s","s","m","e","n","t","s">>,
       <<"o","p","t","i","m","i","z","a","t","i","o","n"," ","s","t","r","a","t","e","g","i","e","s">>,
       <<"b","e","s","t"," ","p","r","a","c","t","i","c","e","s">>>>
     [] n = "tracks" -> <<<<"S","L","A"," ","c","o","m","p","l","i","a","n","c","e">>,
       <<"e","r","r","o","r"," ","r","a","t","e","s">>,
       <<"l","a","t","e","n","c","y"," ","p","a","t","t","e","r","n","s">>,
       <<"r","e","s","o","u","r","c","e"," ","u","t","i","l","i","z","a","t","i","o","n">>,
       <<"A","P","I"," ","h","e","a","l","t","h">>>>
     [] n = "optimizes" -> <<<<"c","a","c","h","i","n","g"," ","s","t","r","a","t","e","g","i","e","s">>,
       <<"q","u","e","r","y"," ","p","e","r","f","o","r","m","a","n","c","e">>,
       <<"n","e","t","w","o","r","k"," ","r","o","u","t","i","n","g">>,
       <<"r","e","s","o","u","r","c","e"," ","a","l","l","o","c","a","t","i","o","n">>,
       <<"l","o","a","d"," ","b","a","l","a","n","c","i","n","g">>>>
     [] n = "threat_type" -> <<<<"z","e","r","o","-","d","a","y"," ","v","u","l","n","e","r","a","b","i","l","i","t","i","e","s">>,
       <<"m","i","s","c","o","n","f","i","g","u","r","a","t","i","o","n","s">>,
       <<"c","o","m","p","l","i","a","n","c","e"," ","v","i","o","l","a","t","i","o","n","s">>,
       <<"p","e","r","f","o","r","m","a","n","c","e"," ","r","e","g","r","e","s","s","i","o","n","s">>,
       <<"a","n","o","m","a","l","o","u","s"," ","b","e","h","a","v","i","o","r">>>>
     [] n = "risk_type" -> <<<<"d","a","t","a"," ","b","r","e","a","c","h","e","s">>,
       <<"s","e","r","v","i","c","e"," ","o","u","t","a","g","e","s">>,
       <<"c","o","s","t"," ","o","v","e","r","r","u","n","s">>,
       <<"r","e","g","u","l","a","t","o","r","y"," ","p","e","n","a","l","t","i","e","s">>,
       <<"s","e","c","u","r","i","t","y"," ","i","n","c","i","d","e","n","t","s">>>>
     [] n = "industry" -> <<<<"h","e","a","l","t","h","c","a","r","e">>,
       <<"f","i","n","t","e","c","h">>,
       <<"l","o","g","i","s","t","i","c","s">>,
       <<"m","a","n","u","f","a","c","t","u","r","i","n","g">>,
       <<"r","e","a","l"," ","e","s","t","a","t","e">>>>
     [] n = "streamlines_process" -> <<<<"r","e","d","u","c","e","s"," ","m","a","n","u","a","l"," ","w","o","r","k"," ","b","y"," ","8","0","%">>,
       <<"a","u","t","o","m","a","t","e","s"," ","c","o","m","p","l","i","a","n","c","e"," ","r","e","p","o","r","t","i","n","g">>,
       <<"i","n","t","e","g","r","a","t","e","s"," ","d","i","s","p","a","r","a","t","e"," ","s","y","s","t","e","m","s">>,
       <<"e","l","i","m","i","n","a","t","e","s"," ","d","a","t","a"," ","s","i","l","o","s">>,
       <<"a","c","c","e","l","e","r","a","t","e","s"," ","t","i","m","e","-","t","o","-","m","a","r","k","e","t">>>>
     [] n = "niche_market" -> <<<<"c","o","n","s","t","r","u","c","t","i","o","n">>,
       <<"l","e","g","a","l">>,
       <<"d","e","n","t","a","l">>,
       <<"H","V","A","C">>,
       <<"p","r","o","p","e","r","t","y"," ","m","a","n","a","g","e","m","e","n","t">>>>
     [] n = "manage_workflow" -> <<<<"s","c","h","e","d","u","l","e"," ","j","o","b","s"," ","e","f","f","i","c","i","e","n","t","l","y">>,
       <<"t","r","a","c","k"," ","p","r","o","j","e","c","t"," ","m","i","l","e","s","t","o","n","e","s">>,
       <<"m","a","n","a","g","e"," ","c","l","i","e","n","t"," ","r","e","l","a","t","i","o","n","s","h","i","p","s">>,
       <<"o","p","t","i","m","i","z","e"," ","r","e","s","o","u","r","c","e"," ","a","l","l","o","c","a","t","i","o","n">>,
       <<"a","u","t","o","m","a","t","e"," ","b","i","l","l","i","n","g">>>>
     [] n = "aggregates" -> <<<<"m","u","l","t","i","-","s","o","u","r","c","e"," ","d","a","t","a">>,
       <<"c","r","o","s","s","-","p","l","a","t","f","o","r","m"," ","m","e","t","r","i","c","s">>,
       <<"c","u","s","t","o","m","e","r"," ","f","e","e","d","b","a","c","k">>,
       <<"m","a","r","k","e","t"," ","s","i","g","n","a","l","s">>,
       <<"o","p","e","r","a","t","i","o","n","a","l"," ","K","P","I","s">>>>
     [] n = "visualizes" -> <<<<"t","r","e","n","d","s"," ","a","n","d"," ","a","n","o","m","a","l","i","e","s">>,
       <<"p","r","e","d","i","c","t","i","v","e"," ","i","n","s","i","g","h","t","s">>,
       <<"r","e","a","l","-","t","i","m","e"," ","d","a","s","h","b","o","a","r","d","s">>,
       <<"c","u","s","t","o","m"," ","r","e","p","o","r","t","s">>,
       <<"e","x","e","c","u","t","i","v","e"," ","s","u","m","m","a","r","i","e","s">>>>
     [] n = "decision_makers" -> <<<<"C","-","s","u","i","t","e"," ","e","x","e","c","u","t","i","v","e","s">>,
       <<"p","r","o","d","u","c","t"," ","m","a","n","a","g","e","r","s">>,
       <<"o","p","e","r","a","t","i","o","n","s"," ","t","e","a","m","s">>,
       <<"g","r","o","w","t","h"," ","m","a","r","k","e","t","e","r","s">>,
       <<"i","n","v","e","s","t","m","e","n","t"," ","c","o","m","m","i","t","t","e","e","s">>>>
     [] n = "coordinates" -> <<<<"m","i","c","r","o","s","e","r","v","i","c","e","s">>,
       <<"t","h","i","r","d","-","p","a","r","t","y"," ","A","P","I","s">>,
       <<"d","a","t","a"," ","p","i","p","e","l","i","n","e","s">>,
       <<"h","u","m","a","n"," ","a","p","p","r","o","v","a","l","s">>,
       <<"c","r","o","s","s","-","t","e","a","m"," ","p","r","o","c","e","s","s","e","s">>>>
     [] n = "systems" -> <<<<"l","e","g","a","c","y"," ","a","n","d"," ","m","o","d","e","r","n"," ","i","n","f","r","a","s","t","r","u","c","t","u","r","e">>,
       <<"c","l","o","u","d"," ","a","n","d"," ","o","n","-","p","r","e","m","i","s","e">>,
       <<"i","n","t","e","r","n","a","l"," ","a","n","d"," ","e","x","t","e","r","n","a","l"," ","t","o","o","l","s">>,
       <<"a","u","t","o","m","a","t","e","d"," ","a","n","d"," ","m","a","n","u","a","l"," ","w","o","r","k","f","l","o","w","s">>,
       <<"s","t","r","u","c","t","u","r","e","d"," ","a","n","d"," ","u","n","s","t","r","u","c","t","u","r","e","d"," ","d","a","t","a">>>>
     [] n = "profession" -> <<<<"s","a","l","e","s"," ","t","e","a","m","s">>,
       <<"c","u","s","t","o","m","e","r"," ","s","u","c","c","e","s","s">>,
       <<"r","e","c","r","u","i","t","e","r","s">>,
       <<"c","o","m","p","l","i","a","n","c","e"," ","o","f","f","i","c","e","r","s">>,
       <<"f","i","n","a","n","c","i","a","l"," ","a","n","a","l","y","s","t","s">>>>
     [] n = "assists_with" -> <<<<"l","e","a","d"," ","q","u","a","l","i","f","i","c","a","t","i","o","n">>,
       <<"c","u","s","t","o","m","e","r"," ","o","n","b","o","a","r","d","i","n","g">>,
       <<"c","a","n","d","i","d","a","t","e"," ","s","c","r","e","e","n","i","n","g">>,
       <<"r","i","s","k"," ","a","s","s","e","s","s","m","e","n","t">>,
       <<"f","i","n","a","n","c","i","a","l"," ","m","o","d","e","l","i","n","g">>>>
     [] n = "technology" -> <<<<"n","a","t","u","r","a","l"," ","l","a","n","g","u","a","g","e"," ","p","r","o","c","e","s","s","i","n","g">>,
       <<"p","r","e","d","i","c","t","i","v","e"," ","a","n","a","l","y","t","i","c","s">>,
       <<"c","o","m","p","u","t","e","r"," ","v","i","s","i","o","n">>,
       <<"r","e","i","n","f","o","r","c","e","m","e","n","t"," ","l","e","a","r","n","i","n","g">>,
       <<"k","n","o","w","l","e","d","g","e"," ","g","r","a","p","h","s">>>>
     [] n = "provider_type" -> <<<<"v","e","t","t","e","d"," ","s","p","e","c","i","a","l","i","s","t","s">>,
       <<"c","e","r","t","i","f","i","e","d"," ","p","r","o","f","e","s","s","i","o","n","a","l","s">>,
       <<"l","o","c","a","l"," ","e","x","p","e","r","t","s">>,
       <<"f","r","e","e","l","a","n","c","e"," ","c","o","n","s","u","l","t","a","n","t","s">>,
       <<"v","e","r","i","f","i","e","d"," ","v","e","n","d","o","r","s">>>>
     [] n = "consumer_type" -> <<<<"e","n","t","e","r","p","r","i","s","e"," ","b","u","y","e","r","s">>,
       <<"S","M","B"," ","o","w","n","e","r","s">>,
       <<"p","r","o","j","e","c","t"," ","m","a","n","a","g","e","r","s">>,
       <<"p","r","o","c","u","r","e","m","e","n","t"," ","t","e","a","m","s">>,
       <<"i","n","d","i","v","i","d","u","a","l"," ","c","l","i","e","n","t","s">>>>
     [] n = "specific_need" -> <<<<"e","m","e","r","g","e","n","c","y"," ","s","e","r","v","i","c","e","s">>,
       <<"s","p","e","c","i","a","l","i","z","e","d"," ","e","x","p","e","r","t","i","s","e">>,
       <<"p","r","o","j","e","c","t","-","b","a","s","e","d"," ","w","o","r","k">>,
       <<"o","n","g","o","i","n","g"," ","m","a","i","n","t","e","n","a","n","c","e">>,
       <<"s","t","r","a","t","e","g","i","c"," ","c","o","n","s","u","l","t","i","n","g">>>>
     [] n = "sellers" -> <<<<"m","a","n","u","f","a","c","t","u","r","e","r","s">>,
       <<"d","i","s","t","r","i","b","u","t","o","r","s">>,
       <<"s","e","r","v","i","c","e"," ","p","r","o","v","i","d","e","r","s">>,
       <<"s","o","f","t","w","a","r","e"," ","v","e","n","d","o","r","s">>,
       <<"e","q","u","i","p","m","e","n","t"," ","s","u","p","p","l","i","e","r","s">>>>
     [] n = "transact" -> <<<<"n","e","g","o","t","i","a","t","e"," ","c","o","n","t","r","a","c","t","s">>,
       <<"p","r","o","c","u","r","e"," ","m","a","t","e","r","i","a","l","s">>,
       <<"l","i","c","e","n","s","e"," ","s","o","f","t","w","a","r","e">>,
       <<"o","u","t","s","o","u","r","c","e"," ","s","e","r","v","i","c","e","s">>,
       <<"l","e","a","s","e"," ","e","q","u","i","p","m","e","n","t">>>>
     [] n = "buyers" -> <<<<"p","r","o","c","u","r","e","m","e","n","t"," ","d","e","p","a","r","t","m","e","n","t","s">>,
       <<"o","p","e","r","a","t","i","o","n","s"," ","m","a","n","a","g","e","r","s">>,
       <<"I","T"," ","d","i","r","e","c","t","o","r","s">>,
       <<"f","a","c","i","l","i","t","y"," ","m","a","n","a","g","e","r","s">>,
       <<"s","u","p","p","l","y"," ","c","h","a","i","n"," ","t","e","a","m","s">>>>
     [] n = "specialist_type" -> <<<<"d","o","m","a","i","n"," ","e","x","p","e","r","t","s">>,
       <<"f","r","a","c","t","i","o","n","a","l"," ","e","x","e","c","u","t","i","v","e","s">>,
       <<"t","e","c","h","n","i","c","a","l"," ","a","r","c","h","i","t","e","c","t","s">>,
       <<"i","n","d","u","s","t","r","y"," ","c","o","n","s","u","l","t","a","n","t","s">>,
       <<"t","r","a","n","s","f","o","r","m","a","t","i","o","n"," ","l","e","a","d","e","r","s">>>>
     [] n = "premium_service" -> <<<<"s","t","r","a","t","e","g","i","c"," ","a","d","v","i","s","o","r","y">>,
       <<"h","a","n","d","s","-","o","n"," ","i","m","p","l","e","m","e","n","t","a","t","i","o","n">>,
       <<"c","u","s","t","o","m"," ","i","n","t","e","g","r","a","t","i","o","n","s">>,
       <<"w","h","i","t","e","-","g","l","o","v","e"," ","s","u","p","p","o","r","t">>,
       <<"o","u","t","c","o","m","e","-","b","a","s","e","d"," ","p","r","o","j","e","c","t","s">>>>
     [] n = "asset_type" -> <<<<"i","n","d","u","s","t","r","i","a","l"," ","e","q","u","i","p","m","e","n","t">>,
       <<"s","p","e","c","i","a","l","i","z","e","d"," ","s","o","f","t","w","a","r","e">>,
       <<"c","o","m","p","u","t","i","n","g"," ","r","e","s","o","u","r","c","e","s">>,
       <<"p","r","o","f","e","s","s","i","o","n","a","l"," ","e","x","p","e","r","t","i","s","e">>,
       <<"i","n","t","e","l","l","e","c","t","u","a","l"," ","p","r","o","p","e","r","t","y">>>>
     [] n = "geographic_niche" -> <<<<"u","r","b","a","n"," ","m","a","r","k","e","t","s">>,
       <<"e","m","e","r","g","i","n","g"," ","r","e","g","i","o","n","s">>,
       <<"e","n","t","e","r","p","r","i","s","e"," ","c","a","m","p","u","s","e","s">>,
       <<"r","e","m","o","t","e"," ","l","o","c","a","t","i","o","n","s">>,
       <<"c","r","o","s","s","-","b","o","r","d","e","r"," ","c","o","r","r","i","d","o","r","s">>>>
     [] n = "resource_type" -> <<<<"c","l","o","u","d"," ","c","o","m","p","u","t","e">>,
       <<"s","p","e","c","i","a","l","i","z","e","d"," ","t","a","l","e","n","t">>,
       <<"p","r","o","p","r","i","e","t","a","r","y"," ","d","a","t","a">>,
       <<"l","i","c","e","n","s","e","d"," ","c","o","n","t","e","n","t">>,
       <<"m","a","n","a","g","e","d"," ","s","e","r","v","i","c","e","s">>>>
     [] n = "value_add" -> <<<<"i","n","s","t","a","n","t"," ","p","r","o","v","i","s","i","o","n","i","n","g">>,
       <<"u","s","a","g","e","-","b","a","s","e","d"," ","p","r","i","c","i","n","g">>,
       <<"c","o","m","p","l","i","a","n","c","e"," ","c","e","r","t","i","f","i","c","a","t","i","o","n">>,
       <<"2","4","/","7"," ","s","u","p","p","o","r","t">>,
       <<"S","L","A"," ","g","u","a","r","a","n","t","e","e","s">>>>
     [] n = "service_type" -> <<<<"o","b","s","e","r","v","a","b","i","l","i","t","y"," ","p","l","a","t","f","o","r","m">>,
       <<"d","a","t","a"," ","p","i","p","e","l","i","n","e">>,
       <<"A","P","I"," ","g","a","t","e","w","a","y">>,
       <<"s","e","c","r","e","t"," ","m","a","n","a","g","e","m","e","n","t">>,
       <<"b","a","c","k","u","p"," ","s","o","l","u","t","i","o","n">>>>
     [] n = "solves_problem" -> <<<<"r","e","d","u","c","e","s"," ","c","o","m","p","l","e","x","i","t","y">>,
       <<"i","m","p","r","o","v","e","s"," ","r","e","l","i","a","b","i","l","i","t","y">>,
       <<"c","u","t","s"," ","o","p","e","r","a","t","i","o","n","a","l"," ","c","o","s","t","s">>,
       <<"a","c","c","e","l","e","r","a","t","e","s"," ","d","e","v","e","l","o","p","m","e","n","t">>,
       <<"e","n","h","a","n","c","e","s"," ","s","e","c","u","r","i","t","y">>>>
     [] n = "unique_approach" -> <<<<"e","d","g","e"," ","c","o","m","p","u","t","i","n","g">>,
       <<"s","e","r","v","e","r","l","e","s","s"," ","a","r","c","h","i","t","e","c","t","u","r","e">>,
       <<"z","e","r","o","-","t","r","u","s","t"," ","s","e","c","u","r","i","t","y">>,
       <<"G","i","t","O","p","s"," ","w","o","r","k","f","l","o","w","s">>,
       <<"A","I","-","d","r","i","v","e","n"," ","a","u","t","o","m","a","t","i","o","n">>>>
     [] n = "specific_metric" -> <<<<"b","u","s","i","n","e","s","s"," ","i","m","p","a","c","t">>,
       <<"u","s","e","r"," ","e","x","p","e","r","i","e","n","c","e">>,
       <<"c","o","s","t"," ","e","f","f","i","c","i","e","n","c","y">>,
       <<"s","e","c","u","r","i","t","y"," ","p","o","s","t","u","r","e">>,
       <<"e","n","v","i","r","o","n","m","e","n","t","a","l"," ","s","u","s","t","a","i","n","a","b","i","l","i","t","y">>>>
     [] n = "tech_stack" -> <<<<"K","u","b","e","r","n","e","t","e","s"," ","c","l","u","s","t","e","r","s">>,
       <<"s","e","r","v","e","r","l","e","s","s"," ","f","u","n","c","t","i","o","n","s">>,
       <<"m","i","c","r","o","s","e","r","v","i","c","e","s">>,
       <<"m","o","n","o","l","i","t","h","i","c"," ","a","p","p","l","i","c","a","t","i","o","n","s">>,
       <<"e","d","g","e"," ","n","e","t","w","o","r","k","s">>>>
     [] n = "simplifies" -> <<<<"m","u","l","t","i","-","c","l","o","u","d"," ","d","e","p","l","o","y","m","e","n","t","s">>,
       <<"b","l","u","e","-","g","r","e","e","n"," ","r","e","l","e","a","s","e","s">>,
       <<"r","o","l","l","b","a","c","k"," ","p","r","o","c","e","d","u","r","e","s">>,
       <<"e","n","v","i","r","o","n","m","e","n","t"," ","p","r","o","v","i","s","i","o","n","i","n","g">>,
       <<"c","o","n","f","i","g","u","r","a","t","i","o","n"," ","m","a","n","a","g","e","m","e","n","t">>>>
     [] n = "target_audience" -> <<<<"p","l","a","t","f","o","r","m"," ","t","e","a","m","s">>,
       <<"D","e","v","O","p","s"," ","e","n","g","i","n","e","e","r","s">>,
       <<"S","R","E","s">>,
       <<"c","l","o","u","d"," ","a","r","c","h","i","t","e","c","t","s">>,
       <<"s","e","c","u","r","i","t","y"," ","t","e","a","m","s">>>>
     [] n = "environment" -> <<<<"c","l","o","u","d"," ","w","o","r","k","l","o","a","d","s">>,
       <<"c","o","n","t","a","i","n","e","r"," ","i","m","a","g","e","s">>,
       <<"C","I","/","C","D"," ","p","i","p","e","l","i","n","e","s">>,
       <<"p","r","o","d","u","c","t","i","o","n"," ","s","y","s","t","e","m","s">>,
       <<"s","u","p","p","l","y"," ","c","h","a","i","n","s">>>>
     [] n = "enables" -> <<<<"s","e","l","f","-","s","e","r","v","i","c","e"," ","i","n","f","r","a","s","t","r","u","c","t","u","r","e">>,
       <<"p","o","l","i","c","y","-","a","s","-","c","o","d","e">>,
       <<"a","u","t","o","m","a","t","e","d"," ","g","o","v","e","r","n","a","n","c","e">>,
       <<"c","o","s","t"," ","a","t","t","r","i","b","u","t","i","o","n">>,
       <<"d","i","s","a","s","t","e","r"," ","r","e","c","o","v","e","r","y">>>>
     [] n = "innovation" -> <<<<"n","a","t","u","r","a","l"," ","l","a","n","g","u","a","g","e"," ","i","n","t","e","r","f","a","c","e","s">>,
       <<"v","i","s","u","a","l"," ","p","r","o","g","r","a","m","m","i","n","g">>,
       <<"A","I","-","a","s","s","i","s","t","e","d"," ","g","e","n","e","r","a","t","i","o","n">>,
       <<"d","r","i","f","t"," ","d","e","t","e","c","t","i","o","n">>,
       <<"p","r","e","d","i","c","t","i","v","e"," ","s","c","a","l","i","n","g">>>>
     [] n = "use_case" -> <<<<"f","r","a","u","d"," ","d","e","t","e","c","t","i","o","n">>,
       <<"p","e","r","s","o","n","a","l","i","z","a","t","i","o","n">>,
       <<"f","o","r","e","c","a","s","t","i","n","g">>,
       <<"r","e","c","o","m","m","e","n","d","a","t","i","o","n">>,
       <<"a","n","o","m","a","l","y"," ","d","e","t","e","c","t","i","o","n">>>>
     [] n = "differentiator" -> <<<<"e","x","p","l","a","i","n","a","b","i","l","i","t","y">>,
       <<"l","o","w","-","l","a","t","e","n","c","y"," ","i","n","f","e","r","e","n","c","e">>,
       <<"d","o","m","a","i","n","-","s","p","e","c","i","f","i","c"," ","f","i","n","e","-","t","u","n","i","n","g">>,
       <<"c","o","n","t","i","n","u","o","u","s"," ","l","e","a","r","n","i","n","g">>,
       <<"r","e","g","u","l","a","t","o","r","y"," ","c","o","m","p","l","i","a","n","c","e">>>>
     [] n = "model_type" -> <<<<"l","a","r","g","e"," ","l","a","n","g","u","a","g","e"," ","m","o","d","e","l","s">>,
       <<"c","o","m","p","u","t","e","r"," ","v","i","s","i","o","n">>,
       <<"t","i","m","e"," ","s","e","r","i","e","s">>,
       <<"r","e","i","n","f","o","r","c","e","m","e","n","t"," ","l","e","a","r","n","i","n","g">>,
       <<"g","r","a","p","h"," ","n","e","u","r","a","l"," ","n","e","t","w","o","r","k","s">>>>
     [] n = "data_type" -> <<<<"m","u","l","t","i","m","o","d","a","l"," ","d","a","t","a">>,
       <<"s","t","r","e","a","m","i","n","g"," ","d","a","t","a">>,
       <<"s","e","n","s","i","t","i","v","e"," ","d","a","t","a">>,
       <<"e","d","g","e"," ","d","a","t","a">>,
       <<"s","y","n","t","h","e","t","i","c"," ","d","a","t","a">>>>
     [] n = "users" -> <<<<"b","u","s","i","n","e","s","s"," ","a","n","a","l","y","s","t","s">>,
       <<"d","o","m","a","i","n"," ","e","x","p","e","r","t","s">>,
       <<"p","r","o","d","u","c","t"," ","t","e","a","m","s">>,
       <<"r","e","s","e","a","r","c","h","e","r","s">>,
       <<"e","n","t","r","e","p","r","e","n","e","u","r","s">>>>
     [] n = "applications" -> <<<<"p","r","e","d","i","c","t","i","v","e"," ","m","o","d","e","l","s">>,
       <<"i","n","t","e","l","l","i","g","e","n","t"," ","a","u","t","o","m","a","t","i","o","n">>,
       <<"c","u","s","t","o","m"," ","c","l","a","s","s","i","f","i","e","r","s">>,
       <<"r","e","c","o","m","m","e","n","d","a","t","i","o","n"," ","e","n","g","i","n","e","s">>,
       <<"c","h","a","t","b","o","t","s">>>>
     [] n = "expertise" -> <<<<"c","o","d","i","n","g"," ","s","k","i","l","l","s">>,
       <<"M","L"," ","k","n","o","w","l","e","d","g","e">>,
       <<"d","a","t","a"," ","s","c","i","e","n","c","e"," ","d","e","g","r","e","e">>,
       <<"c","l","o","u","d"," ","i","n","f","r","a","s","t","r","u","c","t","u","r","e">>,
       <<"m","a","t","h","e","m","a","t","i","c","a","l"," ","b","a","c","k","g","r","o","u","n","d">>>>
     [] n = "domain" -> <<<<"l","e","g","a","l"," ","r","e","s","e","a","r","c","h">>,
       <<"m","e","d","i","c","a","l"," ","d","i","a","g","n","o","s","i","s">>,
       <<"c","o","d","e"," ","r","e","v","i","e","w">>,
       <<"c","o","n","t","e","n","t"," ","c","r","e","a","t","i","o","n">>,
       <<"d","e","s","i","g","n">>>>
     [] n = "capability" -> <<<<"a","n","a","l","y","z","e","s"," ","d","o","c","u","m","e","n","t","s">>,
       <<"g","e","n","e","r","a","t","e","s"," ","i","n","s","i","g","h","t","s">>,
       <<"p","r","o","v","i","d","e","s"," ","r","e","c","o","m","m","e","n","d","a","t","i","o","n","s">>,
       <<"a","u","t","o","m","a","t","e","s"," ","w","o","r","k","f","l","o","w","s">>,
       <<"a","n","s","w","e","r","s"," ","q","u","e","r","i","e","s">>>>
     [] n = "technique" -> <<<<"r","e","t","r","i","e","v","a","l","-","a","u","g","m","e","n","t","e","d"," ","g","e","n","e","r","a","t","i","o","n">>,
       <<"f","e","w","-","s","h","o","t"," ","l","e","a","r","n","i","n","g">>,
       <<"f","i","n","e","-","t","u","n","e","d"," ","m","o","d","e","l","s">>,
       <<"m","u","l","t","i","-","a","g","e","n","t"," ","s","y","s","t","e","m","s">>,
       <<"k","n","o","w","l","e","d","g","e"," ","g","r","a","p","h","s">>>>
     [] n = "purpose" -> <<<<"m","o","d","e","l"," ","t","r","a","i","n","i","n","g">>,
       <<"t","e","s","t","i","n","g">>,
       <<"p","r","i","v","a","c","y"," ","p","r","e","s","e","r","v","a","t","i","o","n">>,
       <<"b","i","a","s"," ","m","i","t","i","g","a","t","i","o","n">>,
       <<"s","c","e","n","a","r","i","o"," ","s","i","m","u","l","a","t","i","o","n">>>>
     [] n = "market_segment" -> <<<<"g","i","g"," ","e","c","o","n","o","m","y">>,
       <<"c","r","o","s","s","-","b","o","r","d","e","r"," ","c","o","m","m","e","r","c","e">>,
       <<"s","u","b","s","c","r","i","p","t","i","o","n"," ","b","u","s","i","n","e","s","s","e","s">>,
       <<"e","n","t","e","r","p","r","i","s","e"," ","p","r","o","c","u","r","e","m","e","n","t">>,
       <<"c","r","e","a","t","o","r"," ","e","c","o","n","o","m","y">>>>
     [] n = "innovative_feature" -> <<<<"i","n","s","t","a","n","t"," ","s","e","t","t","l","e","m","e","n","t">>,
       <<"e","m","b","e","d","d","e","d"," ","b","a","n","k","i","n","g">>,
       <<"c","r","y","p","t","o"," ","r","a","i","l","s">>,
       <<"d","y","n","a","m","i","c"," ","r","o","u","t","i","n","g">>,
       <<"f","r","a","u","d"," ","p","r","e","v","e","n","t","i","o","n"," ","A","I">>>>
     [] n = "financial_process" -> <<<<"a","c","c","o","u","n","t","s"," ","p","a","y","a","b","l","e">>,
       <<"r","e","v","e","n","u","e"," ","r","e","c","o","g","n","i","t","i","o","n">>,
       <<"e","x","p","e","n","s","e"," ","m","a","n","a","g","e","m","e","n","t">>,
       <<"c","a","s","h"," ","f","l","o","w"," ","f","o","r","e","c","a","s","t","i","n","g">>,
       <<"f","i","n","a","n","c","i","a","l"," ","c","l","o","s","e">>>>
     [] n = "business_type" -> <<<<"m","i","d","-","m","a","r","k","e","t"," ","c","o","m","p","a","n","i","e","s">>,
       <<"f","a","s","t","-","g","r","o","w","i","n","g"," ","s","t","a","r","t","u","p","s">>,
       <<"e","n","t","e","r","p","r","i","s","e"," ","s","u","b","s","i","d","i","a","r","i","e","s">>,
       <<"f","r","a","n","c","h","i","s","e"," ","n","e","t","w","o","r","k","s">>,
       <<"h","o","l","d","i","n","g"," ","c","o","m","p","a","n","i","e","s">>>>
     [] n = "regulation" -> <<<<"S","O","C"," ","2">>,
       <<"G","D","P","R">>,
       <<"H","I","P","A","A">>,
       <<"P","C","I","-","D","S","S">>,
       <<"S","O","X">>>>
     [] n = "platform_type" -> <<<<"m","a","r","k","e","t","p","l","a","c","e","s">>,
       <<"S","a","a","S"," ","p","r","o","d","u","c","t","s">>,
       <<"e","-","c","o","m","m","e","r","c","e"," ","p","l","a","t","f","o","r","m","s">>,
       <<"v","e","r","t","i","c","a","l"," ","s","o","f","t","w","a","r","e">>,
       <<"B","2","B"," ","n","e","t","w","o","r","k","s">>>>
     [] n = "company_size" -> <<<<"v","e","n","t","u","r","e","-","b","a","c","k","e","d"," ","s","t","a","r","t","u","p","s">>,
       <<"m","i","d","-","m","a","r","k","e","t"," ","f","i","r","m","s">>,
       <<"m","u","l","t","i","n","a","t","i","o","n","a","l"," ","c","o","r","p","o","r","a","t","i","o","n","s">>,
       <<"p","r","i","v","a","t","e"," ","e","q","u","i","t","y"," ","p","o","r","t","f","o","l","i","o","s">>,
       <<"p","u","b","l","i","c"," ","c","o","m","p","a","n","i","e","s">>>>
     [] n = "ai_capability" -> <<<<"c","a","s","h"," ","p","o","s","i","t","i","o","n"," ","o","p","t","i","m","i","z","a","t","i","o","n">>,
       <<"a","u","t","o","m","a","t","e","d"," ","r","e","c","o","n","c","i","l","i","a","t","i","o","n">>,
       <<"f","r","a","u","d"," ","d","e","t","e","c","t","i","o","n">>,
       <<"p","r","e","d","i","c","t","i","v","e"," ","a","n","a","l","y","t","i","c","s">>,
       <<"r","i","s","k"," ","s","c","o","r","i","n","g">>>>]

\* hashlib.sha256(seed.encode()).hexdigest() for the seeds of run counts 0..5,
\* as the digest's sixteen 16-bit words, most significant first.
SHA256Seeds == {"idea_gen_0_category",
  "idea_gen_0_template",
  "idea_gen_0_0_action",
  "idea_gen_0_1_audience",
  "idea_gen_0_2_data_source",
  "idea_gen_0_0_solve_problem",
  "idea_gen_0_1_method",
  "idea_gen_0_0_team_type",
  "idea_gen_0_1_accomplish_task",
  "idea_gen_0_0_analyzes",
  "idea_gen_0_1_insights",
  "idea_gen_0_0_tracks",
  "idea_gen_0_1_optimizes",
  "idea_gen_0_0_industry",
  "idea_gen_0_1_streamlines_process",
  "idea_gen_0_0_niche_market",
  "idea_gen_0_1_manage_workflow",
  "idea_gen_0_0_aggregates",
  "idea_gen_0_1_visualizes",
  "idea_gen_0_2_decision_makers",
  "idea_gen_0_0_coordinates",
  "idea_gen_0_1_systems",
  "idea_gen_0_0_profession",
  "idea_gen_0_1_assists_with",
  "idea_gen_0_2_technology",
  "idea_gen_0_0_provider_type",
  "idea_gen_0_1_consumer_type",
  "idea_gen_0_2_specific_need",
  "idea_gen_0_0_sellers",
  "idea_gen_0_1_transact",
  "idea_gen_0_2_buyers",
  "idea_gen_0_3_industry",
  "idea_gen_0_0_specialist_type",
  "idea_gen_0_1_premium_service",
  "idea_gen_0_0_asset_type",
  "idea_gen_0_1_geographic_niche",
  "idea_gen_0_0_resource_type",
  "idea_gen_0_1_value_add",
  "idea_gen_0_0_service_type",
  "idea_gen_0_1_solves_problem",
  "idea_gen_0_2_unique_approach",
  "idea_gen_0_0_specific_metric",
  "idea_gen_0_1_tech_stack",
  "idea_gen_0_0_simplifies",
  "idea_gen_0_1_target_audience",
  "idea_gen_0_0_threat_type",
  "idea_gen_0_1_risk_type",
  "idea_gen_0_2_environment",
  "idea_gen_0_0_enables",
  "idea_gen_0_1_innovation",
  "idea_gen_0_0_use_case",
  "idea_gen_0_1_differentiator",
  "idea_gen_0_0_model_type",
  "idea_gen_0_1_data_type",
  "idea_gen_0_0_users",
  "idea_gen_0_1_applications",
  "idea_gen_0_2_expertise",
  "idea_gen_0_0_domain",
  "idea_gen_0_1_capability",
  "idea_gen_0_2_technique",
  "idea_gen_0_1_purpose",
  "idea_gen_0_0_market_segment",
  "idea_gen_0_1_innovative_feature",
  "idea_gen_0_0_financial_process",
  "idea_gen_0_1_business_type",
  "idea_gen_0_0_regulation",
  "idea_gen_0_1_industry",
  "idea_gen_0_1_platform_type",
  "idea_gen_0_0_company_size",
  "idea_gen_0_1_ai_capability",
  "idea_gen_0_feature_0",
  "idea_gen_0_feature_1",
  "idea_gen_0_feature_2",
  "idea_gen_0_feature_3",
  "idea_gen_0_feature_4",
  "idea_gen_0_feature_5",
  "idea_gen_0_feature_6",
  "idea_gen_0_feature_7",
  "idea_gen_0_feature_8",
  "idea_gen_0_feature_9",
  "idea_gen_0_monetization",
  "idea_gen_0_audience",
  "idea_gen_0_tech",
  "idea_gen_1_category",
  "idea_gen_1_template",
  "idea_gen_1_0_action",
  "idea_gen_1_1_audience",
  "idea_gen_1_2_data_source",
  "idea_gen_1_0_solve_problem",
  "idea_gen_1_1_method",
  "idea_gen_1_0_team_type",
  "idea_gen_1_1_accomplish_task",
  "idea_gen_1_0_analyzes",
  "idea_gen_1_1_insights",
  "idea_gen_1_0_tracks",
  "idea_gen_1_1_optimizes",
  "idea_gen_1_0_industry",
  "idea_gen_1_1_streamlines_process",
  "idea_gen_1_0_niche_market",
  "idea_gen_1_1_manage_workflow",
  "idea_gen_1_0_aggregates",
  "idea_gen_1_1_visualizes",
  "idea_gen_1_2_decision_makers",
  "idea_gen_1_0_coordinates",
  "idea_gen_1_1_systems",
  "idea_gen_1_0_profession",
  "idea_gen_1_1_assists_with",
  "idea_gen_1_2_technology",
  "idea_gen_1_0_provider_type",
  "idea_gen_1_1_consumer_type",
  "idea_gen_1_2_specific_need",
  "idea_gen_1_0_sellers",
  "idea_gen_1_1_transact",
  "idea_gen_1_2_buyers",
  "idea_gen_1_3_industry",
  "idea_gen_1_0_specialist_type",
  "idea_gen_1_1_premium_service",
  "idea_gen_1_0_asset_type",
  "idea_gen_1_1_geographic_niche",
  "idea_gen_1_0_resource_type",
  "idea_gen_1_1_value_add",
  "idea_gen_1_0_service_type",
  "idea_gen_1_1_solves_problem",
  "idea_gen_1_2_unique_approach",
  "idea_gen_1_0_specific_metric",
  "idea_gen_1_1_tech_stack",
  "idea_gen_1_0_simplifies",
  "idea_gen_1_1_target_audience",
  "idea_gen_1_0_threat_type",
  "idea_gen_1_1_risk_type",
  "idea_gen_1_2_environment",
  "idea_gen_1_0_enables",
  "idea_gen_1_1_innovation",
  "idea_gen_1_0_use_case",
  "idea_gen_1_1_differentiator",
  "idea_gen_1_0_model_type",
  "idea_gen_1_1_data_type",
  "idea_gen_1_0_users",
  "idea_gen_1_1_applications",
  "idea_gen_1_2_expertise",
  "idea_gen_1_0_domain",
  "idea_gen_1_1_capability",
  "idea_gen_1_2_technique",
  "idea_gen_1_1_purpose",
  "idea_gen_1_0_market_segment",
  "idea_gen_1_1_innovative_feature",
  "idea_gen_1_0_financial_process",
  "idea_gen_1_1_business_type",
  "idea_gen_1_0_regulation",
  "idea_gen_1_1_industry",
  "idea_gen_1_1_platform_type",
  "idea_gen_1_0_company_size",
  "idea_gen_1_1_ai_capability",
  "idea_gen_1_feature_0",
  "idea_gen_1_feature_1",
  "idea_gen_1_feature_2",
  "idea_gen_1_feature_3",
  "idea_gen_1_feature_4",
  "idea_gen_1_feature_5",
  "idea_gen_1_feature_6",
  "idea_gen_1_feature_7",
  "idea_gen_1_feature_8",
  "idea_gen_1_feature_9",
  "idea_gen_1_monetization",
  "idea_gen_1_audience",
  "idea_gen_1_tech",
  "idea_gen_2_category",
  "idea_gen_2_template",
  "idea_gen_2_0_action",
  "idea_gen_2_1_audience",
  "idea_gen_2_2_data_source",
  "idea_gen_2_0_solve_problem",
  "idea_gen_2_1_method",
  "idea_gen_2_0_team_type",
  "idea_gen_2_1_accomplish_task",
  "idea_gen_2_0_analyzes",
  "idea_gen_2_1_insights",
  "idea_gen_2_0_tracks",
  "idea_gen_2_1_optimizes",
  "idea_gen_2_0_industry",
  "idea_gen_2_1_streamlines_process",
  "idea_gen_2_0_niche_market",
  "idea_gen_2_1_manage_workflow",
  "idea_gen_2_0_aggregates",
  "idea_gen_2_1_visualizes",
  "idea_gen_2_2_decision_makers",
  "idea_gen_2_0_coordinates",
  "idea_gen_2_1_systems",
  "idea_gen_2_0_profession",
  "idea_gen_2_1_assists_with",
  "idea_gen_2_2_technology",
  "idea_gen_2_0_provider_type",
  "idea_gen_2_1_consumer_type",
  "idea_gen_2_2_specific_need",
  "idea_gen_2_0_sellers",
  "idea_gen_2_1_transact",
  "idea_gen_2_2_buyers",
  "idea_gen_2_3_industry",
  "idea_gen_2_0_specialist_type",
  "idea_gen_2_1_premium_service",
  "idea_gen_2_0_asset_type",
  "idea_gen_2_1_geographic_niche",
  "idea_gen_2_0_resource_type",
  "idea_gen_2_1_value_add",
  "idea_gen_2_0_service_type",
  "idea_gen_2_1_solves_problem",
  "idea_gen_2_2_unique_approach",
  "idea_gen_2_0_specific_metric",
  "idea_gen_2_1_tech_stack",
  "idea_gen_2_0_simplifies",
  "idea_gen_2_1_target_audience",
  "idea_gen_2_0_threat_type",
  "idea_gen_2_1_risk_type",
  "idea_gen_2_2_environment",
  "idea_gen_2_0_enables",
  "idea_gen_2_1_innovation",
  "idea_gen_2_0_use_case",
  "idea_gen_2_1_differentiator",
  "idea_gen_2_0_model_type",
  "idea_gen_2_1_data_type",
  "idea_gen_2_0_users",
  "idea_gen_2_1_applications",
  "idea_gen_2_2_expertise",
  "idea_gen_2_0_domain",
  "idea_gen_2_1_capability",
  "idea_gen_2_2_technique",
  "idea_gen_2_1_purpose",
  "idea_gen_2_0_market_segment",
  "idea_gen_2_1_innovative_feature",
  "idea_gen_2_0_financial_process",
  "idea_gen_2_1_business_type",
  "idea_gen_2_0_regulation",
  "idea_gen_2_1_industry",
  "idea_gen_2_1_platform_type",
  "idea_gen_2_0_company_size",
  "idea_gen_2_1_ai_capability",
  "idea_gen_2_feature_0",
  "idea_gen_2_feature_1",
  "idea_gen_2_feature_2",
  "idea_gen_2_feature_3",
  "idea_gen_2_feature_4",
  "idea_gen_2_feature_5",
  "idea_gen_2_feature_6",
  "idea_gen_2_feature_7",
  "idea_gen_2_feature_8",
  "idea_gen_2_feature_9",
  "idea_gen_2_monetization",
  "idea_gen_2_audience",
  "idea_gen_2_tech",
  "idea_gen_3_category",
  "idea_gen_3_template",
  "idea_gen_3_0_action",
  "idea_gen_3_1_audience",
  "idea_gen_3_2_data_source",
  "idea_gen_3_0_solve_problem",
  "idea_gen_3_1_method",
  "idea_gen_3_0_team_type",
  "idea_gen_3_1_accomplish_task",
  "idea_gen_3_0_analyzes",
  "idea_gen_3_1_insights",
  "idea_gen_3_0_tracks",
  "idea_gen_3_1_optimizes",
  "idea_gen_3_0_industry",
  "idea_gen_3_1_streamlines_process",
  "idea_gen_3_0_niche_market",
  "idea_gen_3_1_manage_workflow",
  "idea_gen_3_0_aggregates",
  "idea_gen_3_1_visualizes",
  "idea_gen_3_2_decision_makers",
  "idea_gen_3_0_coordinates",
  "idea_gen_3_1_systems",
  "idea_gen_3_0_profession",
  "idea_gen_3_1_assists_with",
  "idea_gen_3_2_technology",
  "idea_gen_3_0_provider_type",
  "idea_gen_3_1_consumer_type",
  "idea_gen_3_2_specific_need",
  "idea_gen_3_0_sellers",
  "idea_gen_3_1_transact",
  "idea_gen_3_2_buyers",
  "idea_gen_3_3_industry",
  "idea_gen_3_0_specialist_type",
  "idea_gen_3_1_premium_service",
  "idea_gen_3_0_asset_type",
  "idea_gen_3_1_geographic_niche",
  "idea_gen_3_0_resource_type",
  "idea_gen_3_1_value_add",
  "idea_gen_3_0_service_type",
  "idea_gen_3_1_solves_problem",
  "idea_gen_3_2_unique_approach",
  "idea_gen_3_0_specific_metric",
  "idea_gen_3_1_tech_stack",
  "idea_gen_3_0_simplifies",
  "idea_gen_3_1_target_audience",
  "idea_gen_3_0_threat_type",
  "idea_gen_3_1_risk_type",
  "idea_gen_3_2_environment",
  "idea_gen_3_0_enables",
  "idea_gen_3_1_innovation",
  "idea_gen_3_0_use_case",
  "idea_gen_3_1_differentiator",
  "idea_gen_3_0_model_type",
  "idea_gen_3_1_data_type",
  "idea_gen_3_0_users",
  "idea_gen_3_1_applications",
  "idea_gen_3_2_expertise",
  "idea_gen_3_0_domain",
  "idea_gen_3_1_capability",
  "idea_gen_3_2_technique",
  "idea_gen_3_1_purpose",
  "idea_gen_3_0_market_segment",
  "idea_gen_3_1_innovative_feature",
  "idea_gen_3_0_financial_process",
  "idea_gen_3_1_business_type",
  "idea_gen_3_0_regulation",
  "idea_gen_3_1_industry",
  "idea_gen_3_1_platform_type",
  "idea_gen_3_0_company_size",
  "idea_gen_3_1_ai_capability",
  "idea_gen_3_feature_0",
  "idea_gen_3_feature_1",
  "idea_gen_3_feature_2",
  "idea_gen_3_feature_3",
  "idea_gen_3_feature_4",
  "idea_gen_3_feature_5",
  "idea_gen_3_feature_6",
  "idea_gen_3_feature_7",
  "idea_gen_3_feature_8",
  "idea_gen_3_feature_9",
  "idea_gen_3_monetization",
  "idea_gen_3_audience",
  "idea_gen_3_tech",
  "idea_gen_4_category",
  "idea_gen_4_template",
  "idea_gen_4_0_action",
  "idea_gen_4_1_audience",
  "idea_gen_4_2_data_source",
  "idea_gen_4_0_solve_problem",
  "idea_gen_4_1_method",
  "idea_gen_4_0_team_type",
  "idea_gen_4_1_accomplish_task",
  "idea_gen_4_0_analyzes",
  "idea_gen_4_1_insights",
  "idea_gen_4_0_tracks",
  "idea_gen_4_1_optimizes",
  "idea_gen_4_0_industry",
  "idea_gen_4_1_streamlines_process",
  "idea_gen_4_0_niche_market",
  "idea_gen_4_1_manage_workflow",
  "idea_gen_4_0_aggregates",
  "idea_gen_4_1_visualizes",
  "idea_gen_4_2_decision_makers",
  "idea_gen_4_0_coordinates",
  "idea_gen_4_1_systems",
  "idea_gen_4_0_profession",
  "idea_gen_4_1_assists_with",
  "idea_gen_4_2_technology",
  "idea_gen_4_0_provider_type",
  "idea_gen_4_1_consumer_type",
  "idea_gen_4_2_specific_need",
  "idea_gen_4_0_sellers",
  "idea_gen_4_1_transact",
  "idea_gen_4_2_buyers",
  "idea_gen_4_3_industry",
  "idea_gen_4_0_specialist_type",
  "idea_gen_4_1_premium_service",
  "idea_gen_4_0_asset_type",
  "idea_gen_4_1_geographic_niche",
  "idea_gen_4_0_resource_type",
  "idea_gen_4_1_value_add",
  "idea_gen_4_0_service_type",
  "idea_gen_4_1_solves_problem",
  "idea_gen_4_2_unique_approach",
  "idea_gen_4_0_specific_metric",
  "idea_gen_4_1_tech_stack",
  "idea_gen_4_0_simplifies",
  "idea_gen_4_1_target_audience",
  "idea_gen_4_0_threat_type",
  "idea_gen_4_1_risk_type",
  "idea_gen_4_2_environment",
  "idea_gen_4_0_enables",
  "idea_gen_4_1_innovation",
  "idea_gen_4_0_use_case",
  "idea_gen_4_1_differentiator",
  "idea_gen_4_0_model_type",
  "idea_gen_4_1_data_type",
  "idea_gen_4_0_users",
  "idea_gen_4_1_applications",
  "idea_gen_4_2_expertise",
  "idea_gen_4_0_domain",
  "idea_gen_4_1_capability",
  "idea_gen_4_2_technique",
  "idea_gen_4_1_purpose",
  "idea_gen_4_0_market_segment",
  "idea_gen_4_1_innovative_feature",
  "idea_gen_4_0_financial_process",
  "idea_gen_4_1_business_type",
  "idea_gen_4_0_regulation",
  "idea_gen_4_1_industry",
  "idea_gen_4_1_platform_type",
  "idea_gen_4_0_company_size",
  "idea_gen_4_1_ai_capability",
  "idea_gen_4_feature_0",
  "idea_gen_4_feature_1",
  "idea_gen_4_feature_2",
  "idea_gen_4_feature_3",
  "idea_gen_4_feature_4",
  "idea_gen_4_feature_5",
  "idea_gen_4_feature_6",
  "idea_gen_4_feature_7",
  "idea_gen_4_feature_8",
  "idea_gen_4_feature_9",
  "idea_gen_4_monetization",
  "idea_gen_4_audience",
  "idea_gen_4_tech",
  "idea_gen_5_category",
  "idea_gen_5_template",
  "idea_gen_5_0_action",
  "idea_gen_5_1_audience",
  "idea_gen_5_2_data_source",
  "idea_gen_5_0_solve_problem",
  "idea_gen_5_1_method",
  "idea_gen_5_0_team_type",
  "idea_gen_5_1_accomplish_task",
  "idea_gen_5_0_analyzes",
  "idea_gen_5_1_insights",
  "idea_gen_5_0_tracks",
  "idea_gen_5_1_optimizes",
  "idea_gen_5_0_industry",
  "idea_gen_5_1_streamlines_process",
  "idea_gen_5_0_niche_market",
  "idea_gen_5_1_manage_workflow",
  "idea_gen_5_0_aggregates",
  "idea_gen_5_1_visualizes",
  "idea_gen_5_2_decision_makers",
  "idea_gen_5_0_coordinates",
  "idea_gen_5_1_systems",
  "idea_gen_5_0_profession",
  "idea_gen_5_1_assists_with",
  "idea_gen_5_2_technology",
  "idea_gen_5_0_provider_type",
  "idea_gen_5_1_consumer_type",
  "idea_gen_5_2_specific_need",
  "idea_gen_5_0_sellers",
  "idea_gen_5_1_transact",
  "idea_gen_5_2_buyers",
  "idea_gen_5_3_industry",
  "idea_gen_5_0_specialist_type",
  "idea_gen_5_1_premium_service",
  "idea_gen_5_0_asset_type",
  "idea_gen_5_1_geographic_niche",
  "idea_gen_5_0_resource_type",
  "idea_gen_5_1_value_add",
  "idea_gen_5_0_service_type",
  "idea_gen_5_1_solves_problem",
  "idea_gen_5_2_unique_approach",
  "idea_gen_5_0_specific_metric",
  "idea_gen_5_1_tech_stack",
  "idea_gen_5_0_simplifies",
  "idea_gen_5_1_target_audience",
  "idea_gen_5_0_threat_type",
  "idea_gen_5_1_risk_type",
  "idea_gen_5_2_environment",
  "idea_gen_5_0_enables",
  "idea_gen_5_1_innovation",
  "idea_gen_5_0_use_case",
  "idea_gen_5_1_differentiator",
  "idea_gen_5_0_model_type",
  "idea_gen_5_1_data_type",
  "idea_gen_5_0_users",
  "idea_gen_5_1_applications",
  "idea_gen_5_2_expertise",
  "idea_gen_5_0_domain",
  "idea_gen_5_1_capability",
  "idea_gen_5_2_technique",
  "idea_gen_5_1_purpose",
  "idea_gen_5_0_market_segment",
  "idea_gen_5_1_innovative_feature",
  "idea_gen_5_0_financial_process",
  "idea_gen_5_1_business_type",
  "idea_gen_5_0_regulation",
  "idea_gen_5_1_industry",
  "idea_gen_5_1_platform_type",
  "idea_gen_5_0_company_size",
  "idea_gen_5_1_ai_capability",
  "idea_gen_5_feature_0",
  "idea_gen_5_feature_1",
  "idea_gen_5_feature_2",
  "idea_gen_5_feature_3",
  "idea_gen_5_feature_4",
  "idea_gen_5_feature_5",
  "idea_gen_5_feature_6",
  "idea_gen_5_feature_7",
  "idea_gen_5_feature_8",
  "idea_gen_5_feature_9",
  "idea_gen_5_monetization",
  "idea_gen_5_audience",
  "idea_gen_5_tech"}

sha256(seed) ==
  CASE seed = "idea_gen_0_category" -> <<30364,15780,38113,54171,56466,27649,14853,13571,55447,11028,21645,42174,57136,32257,54885,53275>>
    [] seed = "idea_gen_0_template" -> <<6734,41512,38796,26768,44429,63682,9937,34178,9944,24499,17066,28896,15847,20173,65157,21070>>
    [] seed = "idea_gen_0_0_action" -> <<37107,16165,13766,59633,57538,14293,36781,44758,57381,8942,34869,10455,4904,45883,13854,45103>>
    [] seed = "idea_gen_0_1_audience" -> <<34633,23487,41664,42954,385,19877,56353,27565,47114,56308,26261,44112,57927,47425,64261,34027>>
    [] seed = "idea_gen_0_2_data_source" -> <<56522,26432,18312,10902,26025,42066,5631,40783,30468,11721,28211,61562,34332,23489,58099,38973>>
    [] seed = "idea_gen_0_0_solve_problem" -> <<2716,8100,37369,27112,64130,61204,11873,39633,38165,49500,65403,21607,15359,27095,9524,9293>>
    [] seed = "idea_gen_0_1_method" -> <<24919,14523,32716,293,32937,37767,32994,33593,61502,35887,35416,37626,53398,37559,19741,64360>>
    [] seed = "idea_gen_0_0_team_type" -> <<56943,11111,42579,44431,64050,21582,15806,15550,23936,38187,50321,38571,55152,6433,16778,39175>>
    [] seed = "idea_gen_0_1_accomplish_task" -> <<36983,54793,34311,43706,56986,17039,48973,10690,41640,11989,14715,7890,9517,56686,4448,54540>>
    [] seed = "idea_gen_0_0_analyzes" -> <<49483,50003,15608,47522,15149,54350,42340,23623,60092,41708,23670,26288,61855,7331,36406,54807>>
    [] seed = "idea_gen_0_1_insights" -> <<11932,24742,15581,58539,30129,30969,1178,64677,47197,42272,14088,41994,43518,18440,1617,36948>>
    [] seed = "idea_gen_0_0_tracks" -> <<36912,47339,36320,36363,39926,45178,32449,61482,37995,6888,10461,9119,57361,10209,57221,25572>>
    [] seed = "idea_gen_0_1_optimizes" -> <<3000,42467,29443,27395,17314,51081,4395,48721,1512,57514,26815,58440,41455,28185,55251,55041>>
    [] seed = "idea_gen_0_0_industry" -> <<58654,45247,31710,25723,44383,2956,19620,19378,50273,58537,63225,55458,42103,46075,46332,59335>>
    [] seed = "idea_gen_0_1_streamlines_process" -> <<14510,44371,32884,32384,52488,62761,15457,26945,63259,16632,61444,51544,29018,38702,38780,49261>>
    [] seed = "idea_gen_0_0_niche_market" -> <<42685,14737,46313,16662,26082,54677,49976,42083,27720,39761,42820,48050,61816,65136,27523,44740>>
    [] seed = "idea_gen_0_1_manage_workflow" -> <<62705,57035,29816,4088,47542,39775,12377,58192,47937,25896,11917,2754,34080,54034,25808,57222>>
    [] seed = "idea_gen_0_0_aggregates" -> <<40163,15554,17173,40159,30472,13495,33982,27127,26127,38565,33790,19149,60780,49440,1197,11596>>
    [] seed = "idea_gen_0_1_visualizes" -> <<26824,30175,13831,2969,3413,58679,29581,38076,14604,48163,29663,44706,14699,19047,772,58113>>
    [] seed = "idea_gen_0_2_decision_makers" -> <<44713,27890,45266,22209,49967,6683,28284,12828,36343,47701,51306,2651,20597,26584,35012,41659>>
    [] seed = "idea_gen_0_0_coordinates" -> <<46316,43880,32140,4574,19418,15039,13188,49835,3705,11874,32568,26101,53756,59874,14094,60533>>
    [] seed = "idea_gen_0_1_systems" -> <<36621,64299,43007,460,13127,6059,47991,6073,51769,25487,22173,54252,7915,48250,18471,18530>>
    [] seed = "idea_gen_0_0_profession" -> <<8609,50768,46317,37341,15923,22055,14711,64408,63678,53242,50654,22727,733,62434,50137,9238>>
    [] seed = "idea_gen_0_1_assists_with" -> <<36098,51672,31158,31028,52240,57389,39476,16606,26014,6132,40925,13462,55608,15675,37066,1520>>
    [] seed = "idea_gen_0_2_technology" -> <<22150,51597,23816,4657,1626,259,56620,46754,21098,42475,23821,39752,19836,52225,29913,16161>>
    [] seed = "idea_gen_0_0_provider_type" -> <<36262,3266,19054,31814,40884,16085,49228,12604,8520,25804,58728,8973,4347,50292,46572,21035>>
    [] seed = "idea_gen_0_1_consumer_type" -> <<42930,41066,27591,42959,47736,43130,62181,52420,64591,25098,64363,58602,62691,52945,24496,13634>>
    [] seed = "idea_gen_0_2_specific_need" -> <<56549,8236,51574,10965,49866,4876,43133,65490,11906,265,63292,45368,19579,19009,13417,59849>>
    [] seed = "idea_gen_0_0_sellers" -> <<30493,45282,39535,30960,2567,33564,120,2651,43256,50665,16770,32210,62018,64379,5440,60776>>
    [] seed = "idea_gen_0_1_transact" -> <<6516,37855,46022,1688,3733,8461,11327,34374,16325,44667,21976,16482,47092,2755,25464,32986>>
    [] seed = "idea_gen_0_2_buyers" -> <<17586,34050,62673,5253,41180,13036,48115,29744,11536,22710,45603,38864,3356,58262,18552,4517>>
    [] seed = "idea_gen_0_3_industry" -> <<47438,23677,23276,29863,60753,29416,37394,63765,30114,18472,58014,23805,54747,5247,50461,53114>>
    [] seed = "idea_gen_0_0_specialist_type" -> <<42830,27303,49806,46055,2756,56913,102,50101,48166,14123,16200,50668,9287,9478,21967,25789>>
    [] seed = "idea_gen_0_1_premium_service" -> <<15511,49672,9934,43352,14322,46593,13119,11835,64850,48299,31397,13705,7612,4167,46177,45479>>
    [] seed = "idea_gen_0_0_asset_type" -> <<4255,29091,63213,38167,54448,31261,29170,6365,24246,11509,54736,29729,57840,16034,61730,41667>>
    [] seed = "idea_gen_0_1_geographic_niche" -> <<32088,14453,47688,28992,24323,61266,37976,7764,42128,17116,48020,59843,60664,6464,11612,44872>>
    [] seed = "idea_gen_0_0_resource_type" -> <<10410,19261,8980,16898,20018,1245,57052,63491,9015,43727,26928,21217,46071,56956,61813,39933>>
    [] seed = "idea_gen_0_1_value_add" -> <<8502,50145,49720,23030,9506,23196,13545,27889,63601,23497,40711,18960,19551,63948,12767,28390>>
    [] seed = "idea_gen_0_0_service_type" -> <<34935,58703,5583,56814,17961,14357,35868,62490,17428,8439,7231,50614,47203,37458,8051,7785>>
    [] seed = "idea_gen_0_1_solves_problem" -> <<3188,48790,60339,1076,43699,29743,10973,1686,41974,10817,39083,56786,7722,309,55940,10384>>
    [] seed = "idea_gen_0_2_unique_approach" -> <<1161,14366,4979,40803,45478,56135,55304,52080,6685,41039,18910,43424,20704,21347,16633,39649>>
    [] seed = "idea_gen_0_0_specific_metric" -> <<23211,30475,7835,33137,23827,65225,26085,26169,48547,28921,61107,8792,39372,22050,62230,17017>>
    [] seed = "idea_gen_0_1_tech_stack" -> <<25974,10835,24695,45790,55638,63097,61724,28278,4375,44291,43805,32007,40740,63155,21643,56040>>
    [] seed = "idea_gen_0_0_simplifies" -> <<709,35018,34392,53760,43034,40772,32948,60123,55965,46163,4873,61486,3221,27258,17701,13278>>
    [] seed = "idea_gen_0_1_target_audience" -> <<7006,323,48841,36160,28313,52580,217,41704,47367,58475,64928,6269,62159,1446,64617,925>>
    [] seed = "idea_gen_0_0_threat_type" -> <<64922,19034,37836,29280,19957,57455,31399,25554,43468,61475,57011,9031,33469,32448,36179,6244>>
    [] seed = "idea_gen_0_1_risk_type" -> <<540,43078,56075,32553,37832,1170,10793,91,63843,42549,20185,25725,54837,33304,49410,4074>>
    [] seed = "idea_gen_0_2_environment" -> <<1030,65206,40477,47706,32352,65189,15965,5341,37233,29180,24387,9187,22565,43784,52307,35767>>
    [] seed = "idea_gen_0_0_enables" -> <<24328,58269,28649,47505,49365,25452,17967,46377,49371,2900,1611,11917,30971,6890,32567,50238>>
    [] seed = "idea_gen_0_1_innovation" -> <<33845,48057,43058,49761,48736,47318,54549,9449,16443,7510,28500,27435,36972,46364,37634,53676>>
    [] seed = "idea_gen_0_0_use_case" -> <<21605,40370,17845,57380,47193,32673,32667,48672,52850,28844,35977,39637,12723,28313,20664,488>>
    [] seed = "idea_gen_0_1_differentiator" -> <<51745,39260,53737,34324,58208,56681,21039,15329,54648,51708,64378,21471,4775,13457,17776,35732>>
    [] seed = "idea_gen_0_0_model_type" -> <<45386,1916,57595,52996,12080,47829,37082,53761,21915,2411,47283,9980,19568,57595,34396,16939>>
    [] seed = "idea_gen_0_1_data_type" -> <<16249,13168,57593,44323,42016,61272,64471,40955,36091,4525,42675,37442,3039,32037,44499,25105>>
    [] seed = "idea_gen_0_0_users" -> <<32713,3539,54752,51898,58375,15505,63260,18121,63895,35334,43275,12201,18421,49987,5312,34112>>
    [] seed = "idea_gen_0_1_applications" -> <<28338,30177,61105,16939,33932,35710,31972,20290,50599,7671,37898,880,28046,43620,8807,51073>>
    [] seed = "idea_gen_0_2_expertise" -> <<9923,12047,43501,23014,58125,58794,19140,32210,55552,5583,62535,55760,4740,1647,24634,11949>>
    [] seed = "idea_gen_0_0_domain" -> <<19234,51936,41219,34151,34652,11021,34480,57935,37964,19926,47910,13099,32664,4638,43862,59297>>
    [] seed = "idea_gen_0_1_capability" -> <<54614,34772,14274,47073,26676,29581,13331,32375,64299,25658,54992,7659,36508,356,40259,34342>>
    [] seed = "idea_gen_0_2_technique" -> <<31005,34626,41825,38767,28232,30689,46015,57511,17694,1124,56337,9918,7088,2083,6476,65466>>
    [] seed = "idea_gen_0_1_purpose" -> <<51644,18593,35019,41778,34294,6012,38204,40594,9242,891,53174,27058,20417,31173,48998,60192>>
    [] seed = "idea_gen_0_0_market_segment" -> <<33198,57828,55613,9808,19690,16639,33680,58053,61625,2637,39281,32538,23530,62442,63067,32130>>
    [] seed = "idea_gen_0_1_innovative_feature" -> <<8613,4839,60192,19381,21560,50628,29219,17788,15322,5257,40893,681,54110,51579,14932,30095>>
    [] seed = "idea_gen_0_0_financial_process" -> <<24055,58505,27410,22286,52655,26369,3258,4926,22831,22419,53691,31470,26352,62306,56937,55295>>
    [] seed = "idea_gen_0_1_business_type" -> <<17547,16560,39363,39131,15087,27757,23450,39999,10541,14354,7455,42866,8416,56316,8639,50367>>
    [] seed = "idea_gen_0_0_regulation" -> <<23083,47374,61663,6729,7363,9999,17677,18591,54880,18244,52035,35586,20207,11449,30969,40701>>
    [] seed = "idea_gen_0_1_industry" -> <<25485,32883,50175,7918,65040,20323,27036,13880,44653,28110,49634,45430,18158,29444,42695,57187>>
    [] seed = "idea_gen_0_1_platform_type" -> <<35483,40836,42758,25946,17410,18177,13968,24537,37437,64408,44663,64358,23354,61832,50343,4998>>
    [] seed = "idea_gen_0_0_company_size" -> <<53936,37386,48472,57842,18223,62089,51551,10390,34576,38025,15344,34658,14938,44806,8150,39302>>
    [] seed = "idea_gen_0_1_ai_capability" -> <<44279,10470,49401,32389,24443,21011,38461,60882,59310,34258,61822,50420,12412,40078,57868,46280>>
    [] seed = "idea_gen_0_feature_0" -> <<873,52832,59432,18561,1356,21202,44827,13452,41605,18953,35535,1212,4577,48963,2662,64117>>
    [] seed = "idea_gen_0_feature_1" -> <<6634,55517,6333,4710,54664,52294,23282,58408,4421,50308,50347,28334,55419,29695,6691,51737>>
    [] seed = "idea_gen_0_feature_2" -> <<24706,27656,20588,22402,19204,19733,22862,3539,61658,17054,16423,9372,3639,39446,7817,811>>
    [] seed = "idea_gen_0_feature_3" -> <<25352,59031,26276,59686,6383,969,61982,49085,54704,31041,28255,18251,7916,756,11878,36974>>
    [] seed = "idea_gen_0_feature_4" -> <<51780,4721,17341,23330,35895,42839,23327,15767,61461,49573,50687,23513,24326,53161,30218,18987>>
    [] seed = "idea_gen_0_feature_5" -> <<43828,7070,33496,9736,32074,29519,62860,61996,60071,6522,32067,5615,31841,32401,50722,40174>>
    [] seed = "idea_gen_0_feature_6" -> <<63021,22200,33926,63718,6881,17869,35435,14837,2110,1429,64608,16260,20678,55768,56053,36662>>
    [] seed = "idea_gen_0_feature_7" -> <<41379,8274,22258,41589,65043,6775,58539,10198,37668,6335,52563,44593,13625,29543,6889,36348>>
    [] seed = "idea_gen_0_feature_8" -> <<7707,61421,3614,283,20305,1407,48087,64663,58849,64827,51333,6051,44960,44977,56254,19015>>
    [] seed = "idea_gen_0_feature_9" -> <<45650,12198,26062,29604,16301,51173,752,50681,42265,31982,49420,31782,10567,51591,62769,3588>>
    [] seed = "idea_gen_0_monetization" -> <<22517,36678,50608,9510,5908,44345,40269,15267,58980,24089,63513,745,58581,20823,52087,52769>>
    [] seed = "idea_gen_0_audience" -> <<25917,31731,19920,48344,54612,64153,47892,47686,16273,46859,60297,17834,47521,20413,46316,36219>>
    [] seed = "idea_gen_0_tech" -> <<40065,44311,19824,38856,5377,35104,27762,30297,25069,60711,25212,55405,31597,19087,54445,58239>>
    [] seed = "idea_gen_1_category" -> <<57501,40344,796,35047,58639,56842,63935,36474,41144,24338,21598,7036,60508,2675,40639,53909>>
    [] seed = "idea_gen_1_template" -> <<32056,3997,37999,57810,52273,30789,44258,52245,45750,29244,14879,53352,51855,40418,37449,9194>>
    [] seed = "idea_gen_1_0_action" -> <<3920,39687,13037,48944,12982,48407,42526,103,6116,52081,38412,5284,16046,865,44705,8920>>
    [] seed = "idea_gen_1_1_audience" -> <<1625,35071,27121,15052,60854,4224,6065,10674,14730,61971,3244,21559,9970,713,29923,31494>>
    [] seed = "idea_gen_1_2_data_source" -> <<45616,34054,48586,11154,204,17081,22139,20026,7915,34728,62709,14715,20645,61658,2315,21962>>
    [] seed = "idea_gen_1_0_solve_problem" -> <<1339,51600,53365,47255,23966,39380,21486,46682,18679,39660,41927,62471,52776,20771,5241,33387>>
    [] seed = "idea_gen_1_1_method" -> <<45561,64694,48542,6385,6340,3747,32933,4637,35482,31524,12071,23934,17779,12497,15886,21102>>
    [] seed = "idea_gen_1_0_team_type" -> <<20505,2797,44287,56827,50682,38187,5537,38194,21552,32941,14957,18692,42704,9282,55159,22028>>
    [] seed = "idea_gen_1_1_accomplish_task" -> <<21523,26053,61861,1855,55529,33345,19992,41193,53471,22187,14060,29909,11783,40603,30866,21618>>
    [] seed = "idea_gen_1_0_analyzes" -> <<37963,55523,50222,55452,56066,19255,51836,49046,40442,32117,27848,8006,30244,18111,22041,7281>>
    [] seed = "idea_gen_1_1_insights" -> <<42727,37305,60285,51827,26724,39010,21897,9686,42092,12474,38682,19745,17244,49534,42027,27945>>
    [] seed = "idea_gen_1_0_tracks" -> <<11530,41486,49331,3292,25438,33476,37928,45405,1758,59688,50983,21740,28796,4065,23477,60272>>
    [] seed = "idea_gen_1_1_optimizes" -> <<89,6046,6475,41259,25541,58139,726,54778,17417,54318,12978,964,26319,45430,15001,48161>>
    [] seed = "idea_gen_1_0_industry" -> <<50991,53595,52001,8003,49090,33275,30600,3172,48876,17286,4059,22115,16435,34775,6164,13462>>
    [] seed = "idea_gen_1_1_streamlines_process" -> <<24583,25026,8042,160,19682,8015,58019,64084,24527,43608,34162,56542,22603,32044,52604,12329>>
    [] seed = "idea_gen_1_0_niche_market" -> <<31023,26239,5847,8086,6963,48572,29639,3078,60669,56445,41380,31652,34597,62741,11121,38840>>
    [] seed = "idea_gen_1_1_manage_workflow" -> <<9242,17401,40657,40671,40731,48941,43904,57377,2241,43949,11166,1231,39931,37915,50454,21674>>
    [] seed = "idea_gen_1_0_aggregates" -> <<44785,20693,14546,61261,25341,42975,17422,846,41563,3316,18128,64363,54956,2782,52225,51332>>
    [] seed = "idea_gen_1_1_visualizes" -> <<58420,28575,41460,39589,11390,33393,41377,1929,43174,51868,26827,7838,12725,6872,25060,23388>>
    [] seed = "idea_gen_1_2_decision_makers" -> <<48343,59951,40661,63762,35554,26502,36398,51129,63887,24656,2733,56218,29444,37287,60472,10121>>
    [] seed = "idea_gen_1_0_coordinates" -> <<49003,5144,47959,52126,25457,35746,22364,47099,33036,7750,38936,13261,57386,56481,23423,50922>>
    [] seed = "idea_gen_1_1_systems" -> <<36191,45400,41674,26263,44661,21773,38371,9216,36733,31167,31890,46700,58784,16904,56430,42965>>
    [] seed = "idea_gen_1_0_profession" -> <<52175,19382,17452,23625,35801,7944,8886,15095,50028,60589,46721,56962,57298,6823,48737,59728>>
    [] seed = "idea_gen_1_1_assists_with" -> <<51226,56769,11854,17109,5496,50654,46418,49183,2772,24097,47767,45039,32279,6024,50588,64211>>
    [] seed = "idea_gen_1_2_technology" -> <<7500,21639,35114,13300,26452,30918,10503,48938,6288,14251,27687,32762,22337,46882,31059,23502>>
    [] seed = "idea_gen_1_0_provider_type" -> <<48384,28178,51906,8174,54912,27873,36070,60061,55781,58112,19376,23351,55781,21807,18568,38502>>
    [] seed = "idea_gen_1_1_consumer_type" -> <<3471,44865,15696,27974,55887,33920,49563,40737,32292,40281,24744,54463,10200,64126,19332,32957>>
    [] seed = "idea_gen_1_2_specific_need" -> <<7003,63001,19882,974,26381,25062,62799,53562,43640,40630,52374,13392,3738,19823,33346,528>>
    [] seed = "idea_gen_1_0_sellers" -> <<26525,8743,43521,32650,16932,24289,55966,64065,65077,47778,256,42898,27410,22001,47471,32910>>
    [] seed = "idea_gen_1_1_transact" -> <<56359,7313,32269,58374,30324,47147,24569,6614,21041,16285,18190,53324,45793,36754,12340,19961>>
    [] seed = "idea_gen_1_2_buyers" -> <<40253,51128,13828,35615,8025,21270,13376,26550,56013,1596,33060,42434,4303,16990,39489,36403>>
    [] seed = "idea_gen_1_3_industry" -> <<33279,13054,54668,21199,9583,43324,40467,18892,31940,339,41174,59835,53056,18090,23965,14984>>
    [] seed = "idea_gen_1_0_specialist_type" -> <<31859,39239,65296,20030,20018,47395,48976,4593,14013,39827,62562,32828,31865,28559,43120,64511>>
    [] seed = "idea_gen_1_1_premium_service" -> <<28784,14239,49521,39884,32595,38971,40648,2538,4228,64302,53815,13366,42899,62446,48519,12295>>
    [] seed = "idea_gen_1_0_asset_type" -> <<725,19296,15538,36125,18868,25338,41742,56895,40778,1702,60512,58006,487,64609,990,45028>>
    [] seed = "idea_gen_1_1_geographic_niche" -> <<21239,8980,33162,30280,8418,17496,8083,59113,18758,1455,31500,32161,23945,3854,38209,25424>>
    [] seed = "idea_gen_1_0_resource_type" -> <<16838,14532,16411,24738,58188,59099,40191,21371,21327,35831,24683,59460,55129,57019,55689,17046>>
    [] seed = "idea_gen_1_1_value_add" -> <<17135,62587,55775,4059,49493,43133,49430,37587,49476,3765,58809,41743,12796,10858,666,42600>>
    [] seed = "idea_gen_1_0_service_type" -> <<23484,29847,63789,20282,61237,33489,44049,35960,7625,36916,45700,10905,60812,46329,800,39792>>
    [] seed = "idea_gen_1_1_solves_problem" -> <<25583,1149,9807,45632,2609,40415,12146,11721,13040,23593,21904,37924,62159,5869,12185,21623>>
    [] seed = "idea_gen_1_2_unique_approach" -> <<8667,23799,15510,35097,50238,13306,38276,3212,42892,57308,12979,1502,53005,9882,52829,22983>>
    [] seed = "idea_gen_1_0_specific_metric" -> <<55780,16276,12176,8251,46186,7046,3163,27755,51395,5615,48652,30100,21262,23831,61481,26809>>
    [] seed = "idea_gen_1_1_tech_stack" -> <<8711,48783,54360,43111,20305,19056,12199,424,27229,7826,26079,44343,33483,33428,30201,35965>>
    [] seed = "idea_gen_1_0_simplifies" -> <<4644,8589,18969,24021,21717,35017,19829,23753,60419,60155,19061,17064,6922,44456,39212,43477>>
    [] seed = "idea_gen_1_1_target_audience" -> <<37444,33454,8051,53003,64924,56740,11875,46566,17721,48979,13422,51443,58379,4161,11732,55520>>
    [] seed = "idea_gen_1_0_threat_type" -> <<53857,23678,13193,52203,51494,26662,56250,37111,46509,49834,15190,52173,58876,30307,52761,3397>>
    [] seed = "idea_gen_1_1_risk_type" -> <<9459,45052,11658,33358,46881,59180,45260,35098,9730,19026,44544,10226,29237,27281,31734,52275>>
    [] seed = "idea_gen_1_2_environment" -> <<7236,54855,42706,36415,7045,53940,16459,1444,46008,52961,57697,17732,14126,25125,48803,31105>>
    [] seed = "idea_gen_1_0_enables" -> <<25217,24999,17416,27948,60400,38243,45663,11785,51841,5235,12931,2798,26123,40063,63055,37127>>
    [] seed = "idea_gen_1_1_innovation" -> <<5718,52552,36557,33041,28971,60267,35197,15578,1340,10074,51499,21963,17791,40684,28099,53425>>
    [] seed = "idea_gen_1_0_use_case" -> <<38691,28451,37157,50670,8392,3698,50033,52008,23204,9836,51080,54306,33336,33010,48054,25740>>
    [] seed = "idea_gen_1_1_differentiator" -> <<51015,41808,9331,63293,25108,29290,56748,28222,62822,11624,42512,25098,36505,30958,7373,5992>>
    [] seed = "idea_gen_1_0_model_type" -> <<19956,34290,945,50768,23961,21429,62929,51599,40793,26730,9283,43057,61667,52336,14339,42937>>
    [] seed = "idea_gen_1_1_data_type" -> <<35575,19218,38746,41988,17786,35988,17696,2313,7832,27919,30022,41028,49710,52238,37970,50554>>
    [] seed = "idea_gen_1_0_users" -> <<18202,19879,61756,11057,47718,35815,9849,33169,55097,24906,25390,10293,22634,41516,45206,3389>>
    [] seed = "idea_gen_1_1_applications" -> <<55802,29076,51315,64070,32043,29373,7798,36546,4225,62526,55116,5658,53866,1418,27572,16905>>
    [] seed = "idea_gen_1_2_expertise" -> <<15989,35384,23456,61684,60748,16209,32568,44719,6991,2820,57183,15276,49466,3907,57476,34411>>
    [] seed = "idea_gen_1_0_domain" -> <<7111,37112,49195,12517,13545,3719,25151,14676,38831,49177,32035,26426,46945,59183,55872,51386>>
    [] seed = "idea_gen_1_1_capability" -> <<55920,2174,42853,12933,49847,39569,51123,50840,10638,6847,30349,42322,25437,30857,51472,33980>>
    [] seed = "idea_gen_1_2_technique" -> <<41974,61525,56651,51489,52982,34026,11956,61159,28230,26790,16884,53872,36658,21156,54695,26366>>
    [] seed = "idea_gen_1_1_purpose" -> <<43375,30090,10381,15656,42218,64237,21943,48884,29028,29248,10880,16363,38549,61034,42785,63169>>
    [] seed = "idea_gen_1_0_market_segment" -> <<11690,11010,25410,58539,41321,44539,54026,59293,13232,49112,13901,64480,61225,2863,47652,43098>>
    [] seed = "idea_gen_1_1_innovative_feature" -> <<44119,13374,62407,52145,34056,24705,8070,46561,36414,54840,62409,39088,29354,55186,65261,29654>>
    [] seed = "idea_gen_1_0_financial_process" -> <<17365,57874,30512,16071,61253,22465,356,54552,56875,18117,48341,9663,31464,62947,50247,11224>>
    [] seed = "idea_gen_1_1_business_type" -> <<40524,10331,24516,46284,39869,5325,26757,6564,51674,46223,22902,44950,27273,2641,54433,54913>>
    [] seed = "idea_gen_1_0_regulation" -> <<2278,9585,60500,58166,2426,42251,38545,33889,44171,30126,22307,64700,7579,2079,50815,22928>>
    [] seed = "idea_gen_1_1_industry" -> <<920,11825,24017,31675,4098,18140,21414,43552,3052,5150,60418,16619,9437,45094,17019,25331>>
    [] seed = "idea_gen_1_1_platform_type" -> <<34145,5188,4314,46077,63946,40236,59992,22444,33135,15378,49143,59758,19644,58767,60771,49734>>
    [] seed = "idea_gen_1_0_company_size" -> <<33404,18704,4384,28367,17736,18277,25225,55873,48630,3824,49247,54308,5622,26428,16385,6875>>
    [] seed = "idea_gen_1_1_ai_capability" -> <<48990,16689,28612,16568,47260,48430,34167,25693,34974,43972,28440,36259,45260,25972,816,41739>>
    [] seed = "idea_gen_1_feature_0" -> <<42927,7585,40772,18395,52791,39919,34662,20518,63273,3427,24217,56082,47443,56924,18332,60870>>
    [] seed = "idea_gen_1_feature_1" -> <<17930,30714,33440,49977,39639,24866,16207,63684,27227,57600,52669,2971,35350,60702,13949,16767>>
    [] seed = "idea_gen_1_feature_2" -> <<63711,9244,44076,18567,45478,38305,55563,781,6633,62853,35043,44109,54243,53239,48481,49569>>
    [] seed = "idea_gen_1_feature_3" -> <<17063,9354,4183,17195,36462,5045,38937,25310,58675,16757,61908,64557,14529,50810,5853,34766>>
    [] seed = "idea_gen_1_feature_4" -> <<28427,50819,51654,51114,64880,27802,52880,33088,32273,2742,42665,24112,24086,11415,35921,38647>>
    [] seed = "idea_gen_1_feature_5" -> <<59248,5489,64426,1281,53928,47409,23279,14215,12874,33975,54003,42851,36657,31415,4942,64296>>
    [] seed = "idea_gen_1_feature_6" -> <<1456,32675,22249,42559,35905,48639,35108,42315,38957,18301,53616,27449,21480,38696,40929,45226>>
    [] seed = "idea_gen_1_feature_7" -> <<13078,7590,24228,6599,1368,9076,56269,17302,50099,56051,30564,29724,28367,18287,64813,43384>>
    [] seed = "idea_gen_1_feature_8" -> <<26536,12337,52312,53098,54694,51890,52102,58057,46852,16028,58932,33696,49756,2244,48913,33506>>
    [] seed = "idea_gen_1_feature_9" -> <<17327,16563,22745,21798,9730,31260,18527,8126,30010,55527,4741,19719,41792,54758,23342,29716>>
    [] seed = "idea_gen_1_monetization" -> <<17056,37801,995,50422,29522,21913,57752,36750,18053,27213,41210,22146,16731,28510,48081,60280>>
    [] seed = "idea_gen_1_audience" -> <<33458,48549,57886,40989,31972,10326,24021,7554,37285,26370,1924,21496,25908,423,62008,4478>>
    [] seed = "idea_gen_1_tech" -> <<46012,24006,3663,17625,8493,61695,34050,48839,15305,47478,50912,44254,6366,34402,45828,12699>>
    [] seed = "idea_gen_2_category" -> <<2012,61813,2336,53896,54154,8393,46459,9336,33147,47646,45884,4075,38917,58079,16235,51751>>
    [] seed = "idea_gen_2_template" -> <<21198,50153,1791,56407,59530,8316,57034,18075,23684,60653,41987,52613,8688,30406,15853,10022>>
    [] seed = "idea_gen_2_0_action" -> <<48666,4908,61430,54690,58014,23436,15801,40156,48487,56460,23948,22727,56690,32287,38794,49735>>
    [] seed = "idea_gen_2_1_audience" -> <<28947,46124,19620,2346,8083,43736,21677,61246,41039,39572,3982,4878,4139,15003,25549,47010>>
    [] seed = "idea_gen_2_2_data_source" -> <<38881,21702,33232,35378,6522,57791,7795,16999,44047,28742,28458,20935,37238,12377,59521,11431>>
    [] seed = "idea_gen_2_0_solve_problem" -> <<57881,21182,40232,34910,29003,7152,32592,1869,58296,36052,19488,40616,44762,62416,47156,42236>>
    [] seed = "idea_gen_2_1_method" -> <<40416,23721,37447,55124,32599,25278,13200,59218,9625,57812,18887,26190,34184,13448,64115,273>>
    [] seed = "idea_gen_2_0_team_type" -> <<46983,58652,55437,42316,5118,23894,33655,37415,22975,53389,54508,35039,44832,57476,17552,19184>>
    [] seed = "idea_gen_2_1_accomplish_task" -> <<21095,16607,46990,47592,17016,14526,19420,12657,49130,41380,61307,35239,13251,34301,45981,22836>>
    [] seed = "idea_gen_2_0_analyzes" -> <<28670,35309,31861,6020,19607,16386,28211,16075,58120,29943,20881,3016,28362,33458,39366,29931>>
    [] seed = "idea_gen_2_1_insights" -> <<21482,52166,2938,44700,58318,47320,25739,34337,37747,19434,16960,16818,34615,6639,3210,3289>>
    [] seed = "idea_gen_2_0_tracks" -> <<30771,41568,46144,58609,48556,63644,48625,63123,9460,31849,42840,56845,64168,4967,3202,51359>>
    [] seed = "idea_gen_2_1_optimizes" -> <<63425,36371,33127,15492,13208,16681,22001,27519,25562,36898,30979,42161,10113,16255,16623,52948>>
    [] seed = "idea_gen_2_0_industry" -> <<35612,14232,46635,20399,25964,54712,26163,9848,20146,50307,33572,33654,19158,17268,10207,50054>>
    [] seed = "idea_gen_2_1_streamlines_process" -> <<44173,8306,57456,212,60215,1484,26226,49503,64905,8210,4408,40795,62483,20456,41113,6682>>
    [] seed = "idea_gen_2_0_niche_market" -> <<36752,1678,59242,3466,39958,33752,36322,20685,27904,64033,28595,44102,53398,49483,54447,44622>>
    [] seed = "idea_gen_2_1_manage_workflow" -> <<31182,29006,55514,5733,64238,8795,36088,55608,57438,52620,4227,64194,57798,45432,25627,11892>>
    [] seed = "idea_gen_2_0_aggregates" -> <<13484,38778,7619,27019,1095,7136,55962,60318,25308,39665,48534,12896,34213,31496,32727,48491>>
    [] seed = "idea_gen_2_1_visualizes" -> <<57515,62778,55378,62317,32729,55878,31972,1485,58447,51750,27115,44416,48560,51704,56057,46879>>
    [] seed = "idea_gen_2_2_decision_makers" -> <<58651,47829,31083,7419,1177,22026,162,50657,1383,34816,32866,1605,4301,4539,31681,49077>>
    [] seed = "idea_gen_2_0_coordinates" -> <<34239,1134,28840,60498,62605,26189,56603,36874,60953,12092,59815,61704,30791,22182,45757,62941>>
    [] seed = "idea_gen_2_1_systems" -> <<59073,9829,22284,57576,380,19123,7373,7295,42230,22356,53290,27584,18616,41055,26639,14900>>
    [] seed = "idea_gen_2_0_profession" -> <<19360,5353,2727,45273,48501,11340,42014,47235,4319,57791,35255,34865,30647,40512,27233,39616>>
    [] seed = "idea_gen_2_1_assists_with" -> <<57930,64905,3673,61576,29617,63343,35837,2539,8465,64577,48444,38957,11807,29373,44715,6355>>
    [] seed = "idea_gen_2_2_technology" -> <<43094,61355,6563,34721,36705,7529,9198,27177,52338,16266,44334,57625,369,13005,16780,33139>>
    [] seed = "idea_gen_2_0_provider_type" -> <<9846,17628,29248,26890,23452,38243,10477,20558,40850,43145,51456,59720,64567,1392,29306,38478>>
    [] seed = "idea_gen_2_1_consumer_type" -> <<14988,17372,63918,7868,55273,27408,26653,6832,36946,6448,2516,17056,27174,7634,60475,10222>>
    [] seed = "idea_gen_2_2_specific_need" -> <<22495,46402,29631,30938,51895,60565,27836,33752,19021,11297,9817,37389,44896,40195,43150,37867>>
    [] seed = "idea_gen_2_0_sellers" -> <<27199,29226,56002,14253,11868,19660,47729,41089,23041,3530,8803,37209,48455,27362,48564,47887>>
    [] seed = "idea_gen_2_1_transact" -> <<40872,52968,43557,2583,8627,19624,42519,52749,19719,65070,29076,34890,28582,9144,15467,49613>>
    [] seed = "idea_gen_2_2_buyers" -> <<41867,13460,13381,25790,30938,28235,62394,6636,17094,37711,8328,36540,25532,60026,46432,17450>>
    [] seed = "idea_gen_2_3_industry" -> <<24078,41731,31403,50502,18111,12032,47743,49839,50745,21182,22273,50916,5321,58705,29872,51484>>
    [] seed = "idea_gen_2_0_specialist_type" -> <<38981,42341,6947,58047,9522,16244,29976,6259,61444,5162,64690,48689,28500,58999,48225,51289>>
    [] seed = "idea_gen_2_1_premium_service" -> <<20422,58229,38835,12437,47819,11538,49134,61446,17198,53868,59187,16462,62777,521,27793,8961>>
    [] seed = "idea_gen_2_0_asset_type" -> <<39403,46322,43209,57769,58496,54697,26719,15577,37403,52901,46310,38344,61537,41903,8798,47167>>
    [] seed = "idea_gen_2_1_geographic_niche" -> <<21222,42677,6114,51818,30949,31460,57644,45840,41531,25503,38993,7142,12743,59099,40185,64524>>
    [] seed = "idea_gen_2_0_resource_type" -> <<9925,32197,17494,32728,12844,46933,36957,31061,62238,32374,27518,35785,11050,63931,24925,59601>>
    [] seed = "idea_gen_2_1_value_add" -> <<53967,20953,56030,32917,28315,3558,54475,11099,44002,14713,13529,834,41814,33527,23487,49167>>
    [] seed = "idea_gen_2_0_service_type" -> <<17420,17337,50883,34631,50414,61968,28471,1862,34693,33339,2882,23308,56300,19535,47445,19539>>
    [] seed = "idea_gen_2_1_solves_problem" -> <<41128,6805,31790,39665,51057,14826,42032,49921,2144,33381,22959,14687,19413,38943,40237,2722>>
    [] seed = "idea_gen_2_2_unique_approach" -> <<23503,37214,20457,48921,39472,53958,30181,31790,40432,16935,51789,17240,53598,3984,13218,40126>>
    [] seed = "idea_gen_2_0_specific_metric" -> <<11184,13937,57454,3859,50239,43609,57929,117,25463,52320,56808,22844,43857,53775,2719,1509>>
    [] seed = "idea_gen_2_1_tech_stack" -> <<62265,44806,6129,65492,23703,55491,2003,10951,35700,63693,36323,9130,48828,41991,47136,63081>>
    [] seed = "idea_gen_2_0_simplifies" -> <<38700,64374,59497,54725,13982,24130,27381,49081,29810,40281,61023,59545,20000,35100,45172,65526>>
    [] seed = "idea_gen_2_1_target_audience" -> <<22282,46402,29915,32846,12544,17458,11788,55286,27988,41410,37311,17177,31412,37464,42457,18807>>
    [] seed = "idea_gen_2_0_threat_type" -> <<43105,51001,51187,24527,12822,56358,31908,16315,37789,48953,25165,20537,14965,7785,57201,39715>>
    [] seed = "idea_gen_2_1_risk_type" -> <<17502,30529,48224,63919,11921,14592,29845,58042,31044,34763,6784,33743,51288,3100,58867,3976>>
    [] seed = "idea_gen_2_2_environment" -> <<34249,62081,36282,46760,63423,36203,50567,19656,15931,54796,37318,3167,21157,27976,62042,29096>>
    [] seed = "idea_gen_2_0_enables" -> <<10938,32925,16333,62808,46672,53538,17136,13482,14156,55793,63425,19892,24527,61338,23658,11457>>
    [] seed = "idea_gen_2_1_innovation" -> <<50255,53432,22975,5910,46857,42902,12823,34378,36152,9574,5937,48314,37543,60495,57505,21145>>
    [] seed = "idea_gen_2_0_use_case" -> <<20008,32501,25048,22603,18730,20179,13953,42589,22624,45455,11692,41780,42397,11284,62624,42729>>
    [] seed = "idea_gen_2_1_differentiator" -> <<17780,39477,25996,63048,43160,36354,45103,13605,26927,48438,56290,21706,33148,9496,2245,9736>>
    [] seed = "idea_gen_2_0_model_type" -> <<55538,41685,7402,22899,5968,22108,49323,44319,33614,6356,42709,61922,40413,40168,44710,23972>>
    [] seed = "idea_gen_2_1_data_type" -> <<31190,30111,23547,31200,24392,6219,1992,40423,9274,12742,3048,9774,57309,34363,9374,63899>>
    [] seed = "idea_gen_2_0_users" -> <<9340,52380,55587,60505,61602,47671,40998,28159,13673,61154,18139,23269,39013,2037,23057,50864>>
    [] seed = "idea_gen_2_1_applications" -> <<50910,55070,33702,36090,16445,33534,6192,9839,62194,17412,54599,6983,52800,9880,23611,21393>>
    [] seed = "idea_gen_2_2_expertise" -> <<14756,56630,64139,38240,15948,41782,41684,11216,14669,6036,29662,36333,49315,26509,33804,42832>>
    [] seed = "idea_gen_2_0_domain" -> <<13263,61914,11731,20740,31152,25986,10284,53486,21457,21160,18740,61257,20813,42554,58852,1114>>
    [] seed = "idea_gen_2_1_capability" -> <<16948,34712,19825,42198,22193,14364,27289,57617,20251,5218,46973,29375,48441,43999,18392,19567>>
    [] seed = "idea_gen_2_2_technique" -> <<21564,9252,14171,60879,33839,4895,53017,51043,53673,32951,42577,53350,35002,42759,51571,19428>>
    [] seed = "idea_gen_2_1_purpose" -> <<46986,59313,29852,62888,55653,9032,20802,10845,18477,6567,2083,26881,62003,44970,35685,43380>>
    [] seed = "idea_gen_2_0_market_segment" -> <<41659,30347,6880,42227,7824,38649,33885,51063,51689,4004,57087,31977,6635,9719,6382,63661>>
    [] seed = "idea_gen_2_1_innovative_feature" -> <<21480,23890,7119,49259,56119,14555,37221,55098,55514,43702,61678,29105,33265,29574,35079,46027>>
    [] seed = "idea_gen_2_0_financial_process" -> <<54824,9525,63158,12606,15435,16746,57749,60020,12626,25242,57518,47733,54318,60616,905,36027>>
    [] seed = "idea_gen_2_1_business_type" -> <<38782,64296,14261,49834,23655,30862,47282,22445,17063,362,21406,35456,31623,25371,36679,29138>>
    [] seed = "idea_gen_2_0_regulation" -> <<42231,63685,51235,53228,20538,22104,44992,827,31773,11100,26012,5538,26797,54440,26776,14164>>
    [] seed = "idea_gen_2_1_industry" -> <<54244,14701,65216,21916,62115,7995,25492,5623,45839,46438,4546,28588,30551,15316,6306,25086>>
    [] seed = "idea_gen_2_1_platform_type" -> <<46537,63885,34208,40577,10023,15293,47772,4055,21467,24355,61741,40077,54665,17204,9465,20922>>
    [] seed = "idea_gen_2_0_company_size" -> <<16924,60095,1928,57640,63656,47413,20702,19425,6840,3848,34009,25172,62356,28042,43750,55526>>
    [] seed = "idea_gen_2_1_ai_capability" -> <<51218,60736,7059,13163,33713,19195,59425,11460,62368,59039,53410,893,8381,34366,32532,14810>>
    [] seed = "idea_gen_2_feature_0" -> <<14167,56386,16037,4625,55483,47091,16117,44216,55583,52786,10543,17657,15770,26881,5388,25002>>
    [] seed = "idea_gen_2_feature_1" -> <<59096,31773,53133,25971,62358,47876,6370,5042,11770,34218,46694,38373,20365,30677,12903,23403>>
    [] seed = "idea_gen_2_feature_2" -> <<31652,26896,42030,45784,290,15190,45226,31537,10568,8413,61994,37358,8060,13216,34934,26132>>
    [] seed = "idea_gen_2_feature_3" -> <<60012,22909,64656,30190,31612,9855,46799,59984,44412,4390,517,39836,26706,24905,10166,64065>>
    [] seed = "idea_gen_2_feature_4" -> <<54981,58774,11382,1733,52572,64407,41796,4729,18105,10594,15684,43389,47221,63375,34948,29726>>
    [] seed = "idea_gen_2_feature_5" -> <<11666,32901,38929,23548,38301,43456,38574,9583,24951,35666,48847,14384,20578,57995,61465,23179>>
    [] seed = "idea_gen_2_feature_6" -> <<45242,55241,50533,14388,8590,19244,36126,48727,50157,12509,47810,62619,63892,49285,44391,5842>>
    [] seed = "idea_gen_2_feature_7" -> <<58916,7958,46195,34184,43447,9573,52267,37605,32493,2963,59054,8873,35207,59810,6164,29107>>
    [] seed = "idea_gen_2_feature_8" -> <<26924,15742,43779,10684,57852,62172,60763,62810,49744,37942,38947,62756,24751,30978,51805,24166>>
    [] seed = "idea_gen_2_feature_9" -> <<42346,29107,47117,62824,38638,12935,56454,25284,10297,34865,29328,48603,25172,22583,3661,3923>>
    [] seed = "idea_gen_2_monetization" -> <<40028,10603,28367,53141,5128,54922,36942,56741,65471,58506,2809,18782,494,47787,34280,47917>>
    [] seed = "idea_gen_2_audience" -> <<43747,50100,3774,33086,20830,43564,49221,24997,5417,43284,32311,24513,6747,1875,2138,22785>>
    [] seed = "idea_gen_2_tech" -> <<44854,34117,14149,53118,48357,17748,6260,25830,30989,63786,8082,29802,50326,2903,47747,44162>>
    [] seed = "idea_gen_3_category" -> <<42695,54088,44549,41273,58537,48874,34235,20955,32387,43607,2023,12988,28587,28382,29592,20509>>
    [] seed = "idea_gen_3_template" -> <<58746,41039,29253,58868,51643,20793,1118,51894,26211,40892,33015,56950,46216,35295,35991,4765>>
    [] seed = "idea_gen_3_0_action" -> <<31230,3394,39348,3301,53983,23052,45919,12562,7079,48484,10172,6774,23618,33376,33555,1077>>
    [] seed = "idea_gen_3_1_audience" -> <<61576,14582,25380,30905,23246,23687,43230,1800,41219,36461,29279,24405,42846,56180,65304,6662>>
    [] seed = "idea_gen_3_2_data_source" -> <<54084,47593,29216,45491,6419,47413,49656,15871,45402,60354,41094,22217,48860,18942,32116,54699>>
    [] seed = "idea_gen_3_0_solve_problem" -> <<26591,1309,50796,44938,47677,57967,4433,26848,57278,61119,41465,45267,65220,57635,30552,40424>>
    [] seed = "idea_gen_3_1_method" -> <<1730,54857,39423,45592,44002,52527,22886,448,43592,14209,31000,12725,33746,35933,19778,30324>>
    [] seed = "idea_gen_3_0_team_type" -> <<10669,15063,28871,55952,33743,46318,11939,10460,46920,10438,56861,10635,873,40635,35467,56138>>
    [] seed = "idea_gen_3_1_accomplish_task" -> <<57995,41208,52305,57018,32021,60250,12958,47707,8206,17394,60183,46600,44067,53142,59967,52592>>
    [] seed = "idea_gen_3_0_analyzes" -> <<22523,41047,48695,57858,53858,41241,18002,52071,7785,65309,4196,53738,46703,32668,62172,15639>>
    [] seed = "idea_gen_3_1_insights" -> <<61672,17856,9788,62172,47237,54222,52692,10933,346,38450,4527,6849,38998,29495,42737,16265>>
    [] seed = "idea_gen_3_0_tracks" -> <<45487,23651,44407,16312,64297,4883,59732,19619,57425,48782,7794,16828,54079,20457,14200,12083>>
    [] seed = "idea_gen_3_1_optimizes" -> <<18797,40887,31702,27330,7707,35206,5763,5677,59164,39227,33125,52428,19497,14443,60586,19667>>
    [] seed = "idea_gen_3_0_industry" -> <<60713,24264,51283,5997,38247,38235,54582,4517,17570,47377,29680,15277,46096,14450,7639,55348>>
    [] seed = "idea_gen_3_1_streamlines_process" -> <<8755,45722,5962,41213,370,7794,16101,25666,31560,21270,39114,54240,35505,58309,41889,60468>>
    [] seed = "idea_gen_3_0_niche_market" -> <<42044,63069,15364,34393,64735,40477,61714,14782,50112,54480,50866,53952,42450,37954,26572,25367>>
    [] seed = "idea_gen_3_1_manage_workflow" -> <<41255,12742,14230,34665,54274,10336,132,12067,30782,19154,48611,29147,56706,6849,13038,49342>>
    [] seed = "idea_gen_3_0_aggregates" -> <<45936,32869,27643,22913,8566,53815,51529,34196,38584,21438,25407,16054,44649,50438,48618,14447>>
    [] seed = "idea_gen_3_1_visualizes" -> <<35232,43171,52227,21424,7657,9664,40059,59608,60713,41271,34212,26692,58074,52267,51182,58127>>
    [] seed = "idea_gen_3_2_decision_makers" -> <<39875,7041,559,15723,52998,23932,34515,17987,35450,40639,34045,1686,20331,42429,12477,49214>>
    [] seed = "idea_gen_3_0_coordinates" -> <<30826,3349,4839,44809,17770,52632,62421,41188,20417,57435,43018,42385,338,36685,46117,2258>>
    [] seed = "idea_gen_3_1_systems" -> <<28724,54200,61734,24449,47161,43402,12068,53523,39700,64745,26578,47449,22048,22226,34816,10686>>
    [] seed = "idea_gen_3_0_profession" -> <<14608,10214,46997,65267,2645,32411,50438,19419,62806,34092,33066,34827,11159,29448,20766,32870>>
    [] seed = "idea_gen_3_1_assists_with" -> <<43668,9486,31866,4917,37543,35250,50591,8293,19208,11370,21087,35041,4587,18025,20108,50846>>
    [] seed = "idea_gen_3_2_technology" -> <<62269,57503,41153,12437,30787,46106,29263,51481,47141,28327,56757,34774,6433,39699,42845,45790>>
    [] seed = "idea_gen_3_0_provider_type" -> <<25710,13228,15831,5049,65027,47658,26312,2766,10946,35190,52052,52190,13315,49593,34892,28806>>
    [] seed = "idea_gen_3_1_consumer_type" -> <<20923,33435,58681,42631,57945,48932,29460,1483,22131,43175,23252,47915,21759,13740,20921,16363>>
    [] seed = "idea_gen_3_2_specific_need" -> <<19014,21959,30942,7458,59811,57659,14613,28671,21260,60735,19060,10323,64390,35491,20600,39237>>
    [] seed = "idea_gen_3_0_sellers" -> <<8001,31039,22345,29149,17075,565,41109,1528,61630,57487,32350,37499,54996,2634,8685,41422>>
    [] seed = "idea_gen_3_1_transact" -> <<56718,34506,64642,52731,59037,54192,60035,19751,19324,46541,10549,26964,38112,1700,16190,23250>>
    [] seed = "idea_gen_3_2_buyers" -> <<38145,40805,9715,1682,12782,22235,26479,7232,34613,52442,2175,49523,52184,45937,21827,56599>>
    [] seed = "idea_gen_3_3_industry" -> <<37276,40672,48684,41808,49404,12999,47495,35595,51296,46798,40669,3824,23427,27323,51593,51392>>
    [] seed = "idea_gen_3_0_specialist_type" -> <<40681,2032,31402,55528,43222,36892,16044,55410,39502,28371,15940,65345,48057,54425,43824,14251>>
    [] seed = "idea_gen_3_1_premium_service" -> <<21185,6547,51233,58388,38954,34050,60893,36259,44550,39427,31443,55202,5801,57238,47150,50319>>
    [] seed = "idea_gen_3_0_asset_type" -> <<18198,16646,47272,15964,56270,48574,43574,19485,61267,57405,57004,39170,28951,43294,30814,310>>
    [] seed = "idea_gen_3_1_geographic_niche" -> <<56246,1952,16753,1867,20135,56121,49059,44367,7991,17922,16662,64323,18474,4712,30575,23703>>
    [] seed = "idea_gen_3_0_resource_type" -> <<49717,31300,1288,52595,56087,291,19545,39820,57268,46937,56994,51369,41148,52311,44387,13498>>
    [] seed = "idea_gen_3_1_value_add" -> <<59200,14924,26133,2949,22539,27682,64488,276,41533,23544,39870,46622,49106,39610,8986,26206>>
    [] seed = "idea_gen_3_0_service_type" -> <<20852,5669,33213,994,23066,20155,20226,59392,59392,43464,60495,58803,41341,10484,58071,37651>>
    [] seed = "idea_gen_3_1_solves_problem" -> <<513,3677,44456,27882,44217,55003,2105,1746,39686,33974,61003,33822,60969,47247,7809,33965>>
    [] seed = "idea_gen_3_2_unique_approach" -> <<65297,48734,50873,18528,37255,60007,8951,31665,43204,53310,48051,17110,30188,21583,15182,43452>>
    [] seed = "idea_gen_3_0_specific_metric" -> <<59203,23089,59808,44729,58382,42818,16308,65262,7919,17752,4299,14998,57567,38188,20827,18368>>
    [] seed = "idea_gen_3_1_tech_stack" -> <<42213,55972,12497,18534,26272,63002,30521,1969,40957,63849,60068,59726,2961,5684,17805,5467>>
    [] seed = "idea_gen_3_0_simplifies" -> <<12286,63117,12690,21475,61546,15399,12191,4297,6234,42918,41972,62557,43551,8185,7545,10077>>
    [] seed = "idea_gen_3_1_target_audience" -> <<49882,21892,28142,27725,46672,63038,25433,37743,25318,25334,9635,35988,45338,5688,16348,60163>>
    [] seed = "idea_gen_3_0_threat_type" -> <<54967,51357,6393,34206,63660,26973,44100,42848,28857,61015,7715,6463,63525,13833,17593,61378>>
    [] seed = "idea_gen_3_1_risk_type" -> <<37690,44474,33163,52645,38974,55076,38466,18836,36392,34145,34051,10146,63728,27988,38509,51000>>
    [] seed = "idea_gen_3_2_environment" -> <<9058,44514,1696,12660,37350,10832,13318,27361,33992,50438,31678,33511,13167,65113,34743,17927>>
    [] seed = "idea_gen_3_0_enables" -> <<56490,6187,33024,15170,12235,62232,11655,5506,15381,15768,10143,23887,57159,64274,16096,45970>>
    [] seed = "idea_gen_3_1_innovation" -> <<32641,62519,41629,64977,54848,55822,60262,48419,9501,30067,1083,45213,26598,57172,42842,21550>>
    [] seed = "idea_gen_3_0_use_case" -> <<56317,25374,14276,16950,40780,4756,52294,42310,17817,56255,17275,12564,25957,25677,46887,49544>>
    [] seed = "idea_gen_3_1_differentiator" -> <<39213,34117,26547,60810,9968,36189,42123,52479,24167,62363,1316,18061,54776,57035,28631,9875>>
    [] seed = "idea_gen_3_0_model_type" -> <<32560,39689,62102,58476,5254,18615,9275,18158,33486,35446,17800,43944,60678,2417,3748,21559>>
    [] seed = "idea_gen_3_1_data_type" -> <<49386,28393,65302,3303,1572,40260,3677,40277,45064,28129,429,19602,37817,53175,48088,40868>>
    [] seed = "idea_gen_3_0_users" -> <<45916,31190,4969,14693,63770,56260,12170,35647,27055,35464,42305,34585,44054,54622,5547,19135>>
    [] seed = "idea_gen_3_1_applications" -> <<46158,5108,58235,36872,35304,38199,35755,39853,58182,44386,11398,38376,34371,33651,14277,53802>>
    [] seed = "idea_gen_3_2_expertise" -> <<15544,57452,40925,38364,7318,61824,41833,16016,45319,47434,7292,14840,48369,58296,19042,26229>>
    [] seed = "idea_gen_3_0_domain" -> <<56311,13228,32300,15470,12042,60298,63417,44795,30993,39293,47274,31028,29927,17047,56889,31207>>
    [] seed = "idea_gen_3_1_capability" -> <<45224,33170,60468,34669,64736,52925,16893,6823,30949,34625,62304,16820,39733,7669,49043,40522>>
    [] seed = "idea_gen_3_2_technique" -> <<57088,51522,13591,15037,46514,35895,53741,2180,6648,18924,24643,59698,21180,60699,2126,18387>>
    [] seed = "idea_gen_3_1_purpose" -> <<6312,60181,8114,38397,25670,51677,29662,20305,41352,45308,4531,8318,47277,31238,34176,8939>>
    [] seed = "idea_gen_3_0_market_segment" -> <<11530,25564,38530,7546,4901,31585,6410,21432,61797,57288,14560,58099,25243,58174,30006,21309>>
    [] seed = "idea_gen_3_1_innovative_feature" -> <<6522,2361,32271,61255,36130,3166,34488,26859,5199,22452,59773,18411,26144,34610,13316,20843>>
    [] seed = "idea_gen_3_0_financial_process" -> <<65252,42795,56962,3418,26566,55848,15661,47981,61595,49962,27084,26622,27444,35948,73,17197>>
    [] seed = "idea_gen_3_1_business_type" -> <<57143,6868,12429,5312,47827,210,47171,63410,39217,62891,22002,55641,8139,40497,11295,46260>>
    [] seed = "idea_gen_3_0_regulation" -> <<15595,1573,35704,14931,25942,60043,62155,16914,31930,15850,30882,50751,57837,24479,36058,56916>>
    [] seed = "idea_gen_3_1_industry" -> <<34926,29170,47521,31130,23128,17388,2363,10160,39671,61202,41924,31186,36218,28590,22367,26802>>
    [] seed = "idea_gen_3_1_platform_type" -> <<5804,12519,30446,56353,9639,48024,30806,53584,17090,44117,64384,17302,12671,19851,41832,24357>>
    [] seed = "idea_gen_3_0_company_size" -> <<20642,17487,52667,6967,54177,24637,62633,45314,702,38940,64852,2296,32971,30070,38497,23262>>
    [] seed = "idea_gen_3_1_ai_capability" -> <<58064,55854,42900,542,6215,8508,23726,21493,8050,41294,49676,44833,9996,21773,34993,21383>>
    [] seed = "idea_gen_3_feature_0" -> <<58409,10194,64084,33538,10709,2459,39662,55659,63530,45457,48284,64552,47778,56572,32744,8221>>
    [] seed = "idea_gen_3_feature_1" -> <<28935,54251,17858,55072,42461,55909,45418,35178,3549,5430,49538,2704,1396,29037,29500,5251>>
    [] seed = "idea_gen_3_feature_2" -> <<29944,4044,23684,18338,25725,4602,13721,33943,30023,9300,63756,11929,21267,49117,39437,5902>>
    [] seed = "idea_gen_3_feature_3" -> <<19342,57023,3963,61168,18956,2877,19336,14704,52923,25835,95,11326,36431,61902,43012,7397>>
    [] seed = "idea_gen_3_feature_4" -> <<29024,22327,39208,45787,54193,29081,62192,30084,13018,31570,64232,21045,56068,16149,5276,45975>>
    [] seed = "idea_gen_3_feature_5" -> <<51502,440,16329,3517,48670,65123,23996,48058,35434,12192,36272,35620,31222,16508,21107,32233>>
    [] seed = "idea_gen_3_feature_6" -> <<21795,13903,58473,39898,11423,54175,23348,7176,31659,61842,49511,40047,24130,29556,61803,8590>>
    [] seed = "idea_gen_3_feature_7" -> <<50856,17917,6227,20851,50188,24831,33509,62629,15328,29259,26588,25067,21438,1645,32700,31509>>
    [] seed = "idea_gen_3_feature_8" -> <<33720,8354,31973,8676,35325,11828,26376,47870,50683,53009,29348,25953,22129,48947,15189,44110>>
    [] seed = "idea_gen_3_feature_9" -> <<37625,47333,31333,44550,14839,26181,52433,11704,5444,2691,23713,7577,27915,51195,50781,60139>>
    [] seed = "idea_gen_3_monetization" -> <<10085,41820,33466,40454,32827,24453,5457,18358,4337,21382,36970,37665,45230,28726,40464,58992>>
    [] seed = "idea_gen_3_audience" -> <<1992,32739,17819,12167,37920,8770,23897,24793,41516,28195,32329,24271,51229,14598,27104,48703>>
    [] seed = "idea_gen_3_tech" -> <<8469,1088,2612,23296,58265,42016,48159,26650,42396,58853,27677,41976,33875,4879,65135,14398>>
    [] seed = "idea_gen_4_category" -> <<15622,60930,46867,57172,18904,33076,51105,29042,3735,16694,47119,42457,24673,47532,4632,14649>>
    [] seed = "idea_gen_4_template" -> <<41271,42200,63817,40407,12172,53963,8513,43468,50504,16705,59106,32475,65439,52321,52842,42598>>
    [] seed = "idea_gen_4_0_action" -> <<15248,46922,49204,7936,29343,38152,60284,40244,39270,53940,25323,62947,46543,8039,62203,46321>>
    [] seed = "idea_gen_4_1_audience" -> <<32467,45844,14374,13498,54635,17709,23781,28413,1120,59401,8953,5860,12167,2578,2508,37737>>
    [] seed = "idea_gen_4_2_data_source" -> <<24937,44839,6296,47723,16100,28055,7717,28304,16030,28619,16725,63644,38882,12046,47272,49658>>
    [] seed = "idea_gen_4_0_solve_problem" -> <<27557,7485,19789,40912,30989,31155,27020,17778,54298,44858,25469,42038,27057,32882,54582,7758>>
    [] seed = "idea_gen_4_1_method" -> <<44936,5561,56824,5716,58747,48673,11492,2128,9478,36693,42618,44473,12565,13910,2449,46950>>
    [] seed = "idea_gen_4_0_team_type" -> <<5969,14510,5441,28778,27304,59569,8673,39943,33210,33835,25092,35295,60673,17307,58576,704>>
    [] seed = "idea_gen_4_1_accomplish_task" -> <<16771,18398,30708,56765,37184,53139,52830,57851,5962,11175,53994,45404,5299,63104,27660,22161>>
    [] seed = "idea_gen_4_0_analyzes" -> <<21476,22713,14234,39550,18713,48196,29503,22006,6758,4269,14408,55526,24085,3118,13089,24856>>
    [] seed = "idea_gen_4_1_insights" -> <<63877,43415,10416,63701,38922,20383,18564,58557,56756,3892,2767,62958,51326,59908,46508,50052>>
    [] seed = "idea_gen_4_0_tracks" -> <<57443,59700,8463,43966,5016,857,2420,21451,34316,57485,22053,26979,6879,18252,47720,24311>>
    [] seed = "idea_gen_4_1_optimizes" -> <<36878,27941,62813,61521,27114,41607,54005,17674,8924,50343,35028,28861,57586,31653,36424,20187>>
    [] seed = "idea_gen_4_0_industry" -> <<11947,28819,37037,53856,32056,38769,19955,6790,34181,26260,12634,39636,14661,63426,7338,7168>>
    [] seed = "idea_gen_4_1_streamlines_process" -> <<959,25982,18993,52510,34790,2846,33206,31870,211,50696,2255,37841,36748,11823,57346,61479>>
    [] seed = "idea_gen_4_0_niche_market" -> <<36428,58237,33294,48280,55032,57133,58993,34248,45006,53834,9870,1042,24457,27515,59140,51090>>
    [] seed = "idea_gen_4_1_manage_workflow" -> <<29176,49480,64638,50446,9371,56667,20472,7528,53844,2306,42967,56183,62513,484,18760,35852>>
    [] seed = "idea_gen_4_0_aggregates" -> <<29279,48917,37688,15164,42515,64494,6803,52122,17483,6686,27766,14901,21297,64070,37756,4356>>
    [] seed = "idea_gen_4_1_visualizes" -> <<27699,23677,7732,23363,52461,64549,39062,60542,47566,44849,64891,50170,22334,51123,13312,11096>>
    [] seed = "idea_gen_4_2_decision_makers" -> <<19680,46505,10141,60206,20604,9832,49392,36997,44568,60144,6288,37882,25722,32385,39815,20278>>
    [] seed = "idea_gen_4_0_coordinates" -> <<1398,33539,21644,58027,11819,45396,17470,1065,11874,53640,11540,58487,65174,29683,21686,21593>>
    [] seed = "idea_gen_4_1_systems" -> <<36736,60209,5947,49139,53196,36968,28064,2989,60046,41611,49376,8151,23117,16421,11111,15283>>
    [] seed = "idea_gen_4_0_profession" -> <<64791,27161,4371,53806,21389,28969,49929,1803,55728,63434,10181,789,59108,47160,9500,2221>>
    [] seed = "idea_gen_4_1_assists_with" -> <<50841,3869,55691,56485,48679,1040,29359,20774,33010,40459,22604,40595,30824,43725,24847,17341>>
    [] seed = "idea_gen_4_2_technology" -> <<50919,1330,32531,36647,31490,49151,35472,50915,46747,49906,9255,9501,50066,50333,20014,35065>>
    [] seed = "idea_gen_4_0_provider_type" -> <<23346,23896,25352,62754,35861,13970,64598,11123,61219,56959,46056,25333,31779,36889,48829,63813>>
    [] seed = "idea_gen_4_1_consumer_type" -> <<52453,12174,6065,46450,17379,23435,50329,64851,61155,50762,38934,32391,13864,51200,51145,6337>>
    [] seed = "idea_gen_4_2_specific_need" -> <<43447,57004,12405,22733,43179,65200,58114,45386,40093,57166,5932,14024,18374,26074,3654,51995>>
    [] seed = "idea_gen_4_0_sellers" -> <<10459,60586,15503,15801,9147,53593,4654,33408,34771,36795,5115,6569,17007,33846,25495,55537>>
    [] seed = "idea_gen_4_1_transact" -> <<4339,7211,23416,159,6997,4019,10401,43881,39966,8542,58870,20413,1374,5967,30347,3043>>
    [] seed = "idea_gen_4_2_buyers" -> <<49972,36163,7165,8677,56904,8864,46306,5584,16781,49748,4614,22048,27246,44958,5503,18909>>
    [] seed = "idea_gen_4_3_industry" -> <<13715,50857,666,18975,58362,57512,15540,31047,23501,39440,61585,58728,43135,18787,24352,39681>>
    [] seed = "idea_gen_4_0_specialist_type" -> <<9581,53967,30302,7942,47630,61745,15185,29229,31765,14875,19003,59954,3728,5062,20873,58774>>
    [] seed = "idea_gen_4_1_premium_service" -> <<53116,6675,616,63208,41492,55287,44062,48238,44228,64731,3995,30055,60965,41529,52281,5438>>
    [] seed = "idea_gen_4_0_asset_type" -> <<20566,19610,61032,53578,60461,18184,61034,33011,34758,3074,14427,25910,6886,3030,39089,43594>>
    [] seed = "idea_gen_4_1_geographic_niche" -> <<4873,32818,3545,41614,7418,48581,47946,61193,63697,54739,26522,2074,50531,766,58457,3132>>
    [] seed = "idea_gen_4_0_resource_type" -> <<50300,36892,55841,22165,56932,5840,53703,23367,16361,32638,59240,20077,5984,24295,231,46913>>
    [] seed = "idea_gen_4_1_value_add" -> <<8368,55788,59918,37003,21963,46950,18001,47191,16380,9904,11998,114,22738,31755,45528,12148>>
    [] seed = "idea_gen_4_0_service_type" -> <<32474,4974,14043,46372,35150,24757,5627,62893,10184,4519,30684,37343,43289,57001,45421,2178>>
    [] seed = "idea_gen_4_1_solves_problem" -> <<41284,43242,29028,31608,33147,8282,9720,3092,25532,26260,34315,3266,58477,36179,23797,39780>>
    [] seed = "idea_gen_4_2_unique_approach" -> <<7615,48038,21932,34992,60840,16942,54738,35310,14371,35970,8156,29569,22093,50273,64361,39822>>
    [] seed = "idea_gen_4_0_specific_metric" -> <<52474,15014,48223,46604,26018,32331,9074,15616,51650,54709,23394,12897,17842,22316,59149,15620>>
    [] seed = "idea_gen_4_1_tech_stack" -> <<40895,29802,665,18568,16909,4258,29340,8589,18642,7572,4503,8079,26106,13266,29947,17451>>
    [] seed = "idea_gen_4_0_simplifies" -> <<13157,5592,32300,42940,23119,36756,7408,41488,65095,1605,53895,41812,5532,62099,58210,2601>>
    [] seed = "idea_gen_4_1_target_audience" -> <<12297,46699,19126,52479,55385,20229,16445,12303,29719,14093,18491,25811,42143,23045,17984,15274>>
    [] seed = "idea_gen_4_0_threat_type" -> <<23095,60343,56909,24095,39305,63865,31894,40431,27095,24693,45011,3856,28075,20261,55372,21238>>
    [] seed = "idea_gen_4_1_risk_type" -> <<32795,19885,29949,57696,62508,50697,4292,18238,50201,24144,26195,1186,63401,18250,4285,59792>>
    [] seed = "idea_gen_4_2_environment" -> <<50796,36439,61259,56113,8945,59892,57141,23917,11776,7859,53218,7304,13155,35036,43731,39719>>
    [] seed = "idea_gen_4_0_enables" -> <<37962,31294,1160,55902,36164,44186,30863,54925,32179,15151,39321,1481,64369,8434,27221,44918>>
    [] seed = "idea_gen_4_1_innovation" -> <<13877,51981,53479,62197,15748,51260,17124,59946,27722,45180,10470,26689,47614,28489,26746,51752>>
    [] seed = "idea_gen_4_0_use_case" -> <<9437,2019,27798,51705,13992,56205,14952,2355,58545,20091,58796,17200,32922,8552,12657,1480>>
    [] seed = "idea_gen_4_1_differentiator" -> <<64446,47855,26389,4262,21793,55466,1683,12714,64225,14650,54487,56237,24921,18218,50181,57827>>
    [] seed = "idea_gen_4_0_model_type" -> <<19222,14572,49507,52251,34464,12475,64436,33957,25636,37398,35102,16330,58354,34577,34604,31416>>
    [] seed = "idea_gen_4_1_data_type" -> <<13793,18556,46396,61380,24301,48037,47111,32813,61746,30011,18302,55889,53881,22188,61172,42969>>
    [] seed = "idea_gen_4_0_users" -> <<5251,55294,38709,10733,38626,40598,14592,12496,49168,23618,14649,46785,27601,41409,22434,33684>>
    [] seed = "idea_gen_4_1_applications" -> <<37518,60648,28440,9606,24085,62316,31665,51670,21106,5318,45719,51415,2024,52518,57245,50801>>
    [] seed = "idea_gen_4_2_expertise" -> <<31635,40201,22443,27599,10290,12654,34516,3588,29183,44854,23427,3690,64347,9732,55211,37392>>
    [] seed = "idea_gen_4_0_domain" -> <<1082,17632,49873,15097,19330,47425,51474,40393,2218,35198,25975,7138,665,13575,31705,18498>>
    [] seed = "idea_gen_4_1_capability" -> <<4765,36015,58988,7739,29633,6520,40262,1771,36056,60215,41481,55523,31580,5921,16310,10259>>
    [] seed = "idea_gen_4_2_technique" -> <<64441,9502,63506,7082,26966,53823,2227,24149,36215,14323,45052,40953,48423,39948,53764,41453>>
    [] seed = "idea_gen_4_1_purpose" -> <<6793,40942,10416,22000,53722,40586,23855,10285,10036,46600,7808,39837,57987,50586,14150,38688>>
    [] seed = "idea_gen_4_0_market_segment" -> <<61805,59492,20881,15435,33509,14206,30335,59116,34266,38529,36617,35935,38989,37733,5894,17496>>
    [] seed = "idea_gen_4_1_innovative_feature" -> <<45062,39328,353,41978,1881,61476,62246,53587,59164,25098,63119,8144,13215,38205,39483,63032>>
    [] seed = "idea_gen_4_0_financial_process" -> <<6491,58981,26935,7816,44860,56826,19052,51108,41379,26758,45270,53302,1151,20869,8943,50580>>
    [] seed = "idea_gen_4_1_business_type" -> <<50624,64821,32226,8238,11829,7423,2169,5508,6738,19904,37459,48696,45426,33051,7409,7967>>
    [] seed = "idea_gen_4_0_regulation" -> <<45614,59892,58171,47340,11293,50374,29772,51915,22384,22055,15019,23122,42727,10888,37891,22695>>
    [] seed = "idea_gen_4_1_industry" -> <<9212,38840,41193,42815,19991,40317,6520,57792,46361,25,31593,50591,61437,14559,13784,17129>>
    [] seed = "idea_gen_4_1_platform_type" -> <<56274,41620,9278,21142,32076,59433,23316,25168,9535,14486,49987,12849,52675,30320,2204,12890>>
    [] seed = "idea_gen_4_0_company_size" -> <<35648,49115,17184,12969,44293,37851,61504,23247,79,56542,18178,61879,1136,50776,49065,36920>>
    [] seed = "idea_gen_4_1_ai_capability" -> <<20605,61163,24308,32584,54514,47139,22010,16547,31281,5747,24224,29130,36636,58930,61461,58978>>
    [] seed = "idea_gen_4_feature_0" -> <<48795,6529,19464,62610,46136,650,30070,42233,51521,40947,28835,45787,21691,60464,30394,35271>>
    [] seed = "idea_gen_4_feature_1" -> <<3005,40923,7293,45244,58841,23725,16929,33067,12919,22197,26615,15040,65159,55890,24182,32897>>
    [] seed = "idea_gen_4_feature_2" -> <<43359,2521,19704,20376,36780,49928,10484,8122,35682,31824,31189,61932,47156,8429,39924,6118>>
    [] seed = "idea_gen_4_feature_3" -> <<39240,17819,10474,17781,31865,62014,54258,24576,61199,30826,1193,8050,8179,6767,7358,41396>>
    [] seed = "idea_gen_4_feature_4" -> <<18707,8295,429,40062,2680,51827,12302,36709,367,11319,20237,54560,28796,61538,57475,30575>>
    [] seed = "idea_gen_4_feature_5" -> <<57217,5616,35207,2030,2598,896,51275,59255,61636,63880,54872,11186,51794,36220,63296,20712>>
    [] seed = "idea_gen_4_feature_6" -> <<48317,20949,14672,64558,2267,39349,43101,38541,11970,46772,26521,30609,40001,60434,42277,46447>>
    [] seed = "idea_gen_4_feature_7" -> <<18929,49208,5752,16540,11612,33428,27465,50253,33876,20030,55055,27711,7200,45179,30862,79>>
    [] seed = "idea_gen_4_feature_8" -> <<6124,17863,47199,14804,65332,4635,30379,30621,28856,33833,45837,58178,24740,12220,54016,64085>>
    [] seed = "idea_gen_4_feature_9" -> <<39246,27719,15801,10279,62262,30108,45651,31335,19565,48919,44428,52869,64606,59361,37628,32340>>
    [] seed = "idea_gen_4_monetization" -> <<48064,20938,38062,57115,25280,52960,39455,54382,56579,40626,33652,51640,13014,268,12048,8317>>
    [] seed = "idea_gen_4_audience" -> <<22290,20977,6469,33065,53889,11845,29977,29900,17572,32003,60134,56597,22461,22882,25731,41926>>
    [] seed = "idea_gen_4_tech" -> <<24402,10625,39912,56596,36857,17008,24799,60214,255,3979,39294,28832,52278,32157,46505,54139>>
    [] seed = "idea_gen_5_category" -> <<46975,7640,5110,27179,33581,15790,13531,8334,52060,56537,34363,32160,56301,7087,61247,55642>>
    [] seed = "idea_gen_5_template" -> <<22066,21271,23578,30940,45326,49914,194,61914,59110,39151,29055,10193,45722,9021,11162,11762>>
    [] seed = "idea_gen_5_0_action" -> <<30917,58692,8728,45758,57639,13979,17526,523,50794,47193,46928,28064,28302,24439,25131,7408>>
    [] seed = "idea_gen_5_1_audience" -> <<49777,17608,61605,10253,30549,47253,54944,7136,27436,22847,52477,38602,25788,48159,46247,29800>>
    [] seed = "idea_gen_5_2_data_source" -> <<34861,43644,65381,1185,17931,25876,421,37232,53087,64170,50754,23612,57023,42477,25342,56743>>
    [] seed = "idea_gen_5_0_solve_problem" -> <<24741,16662,58070,63478,16290,41120,55995,45042,57854,43819,8861,6113,7362,26986,46511,3973>>
    [] seed = "idea_gen_5_1_method" -> <<6613,11060,52845,31918,29867,35505,921,62192,38129,52353,49067,60010,17158,48120,4753,9951>>
    [] seed = "idea_gen_5_0_team_type" -> <<34258,28994,49207,60467,4403,56887,37089,51220,16859,46433,50938,29122,47679,48073,25537,36082>>
    [] seed = "idea_gen_5_1_accomplish_task" -> <<41324,3451,60053,13448,15800,23772,63954,53639,43897,12784,1933,14793,3548,3442,62100,57372>>
    [] seed = "idea_gen_5_0_analyzes" -> <<44016,19727,27780,15145,27607,5669,59070,56335,57273,34974,61361,9670,5666,63846,50865,56229>>
    [] seed = "idea_gen_5_1_insights" -> <<62247,40729,1023,8984,52925,58063,38283,28342,38739,7860,55485,56864,21776,23526,61825,26591>>
    [] seed = "idea_gen_5_0_tracks" -> <<21138,2893,45658,23931,57916,59469,44906,63406,39999,7318,59712,35088,4549,55518,43958,33609>>
    [] seed = "idea_gen_5_1_optimizes" -> <<25732,10582,15435,22788,26764,52844,42590,17966,56962,32763,56204,3823,45479,49445,12383,42755>>
    [] seed = "idea_gen_5_0_industry" -> <<14713,36976,45988,43149,16562,50301,19400,62731,4862,24483,63880,53217,18110,3717,4394,21565>>
    [] seed = "idea_gen_5_1_streamlines_process" -> <<44289,55926,36445,28043,34388,35294,31745,46751,59094,42223,44934,11890,35299,13523,30828,15386>>
    [] seed = "idea_gen_5_0_niche_market" -> <<37555,57,55033,17836,43190,47498,33630,16606,38748,52930,36304,19171,43738,34325,25673,1717>>
    [] seed = "idea_gen_5_1_manage_workflow" -> <<62239,58693,6573,5648,54771,51777,56751,4796,41401,17988,42214,17970,37726,39947,36794,49060>>
    [] seed = "idea_gen_5_0_aggregates" -> <<62300,60460,57264,59585,54110,28866,41559,39898,4169,26012,18499,14749,49947,45540,26088,2156>>
    [] seed = "idea_gen_5_1_visualizes" -> <<45477,8663,10268,18620,11465,29795,4921,3914,1424,16452,48606,8228,52840,40344,62814,36003>>
    [] seed = "idea_gen_5_2_decision_makers" -> <<24393,47632,17035,48338,52500,25883,1383,28132,2999,297,42046,46625,10993,62323,13956,15845>>
    [] seed = "idea_gen_5_0_coordinates" -> <<55743,5204,3420,2094,29733,61227,5740,44953,17897,50901,32631,14018,17770,7282,54848,5663>>
    [] seed = "idea_gen_5_1_systems" -> <<40722,64326,16426,2020,37185,30046,56004,36583,2263,61709,31874,52413,6556,21182,22142,43919>>
    [] seed = "idea_gen_5_0_profession" -> <<10186,23358,53978,46537,39168,2534,34811,52021,26354,49402,46090,41588,61164,26669,57758,51371>>
    [] seed = "idea_gen_5_1_assists_with" -> <<53546,54937,65257,48570,56258,42180,20128,31254,5133,39727,39209,47365,23100,64368,53082,9164>>
    [] seed = "idea_gen_5_2_technology" -> <<25905,19063,7102,44642,41566,442,7301,55386,23214,64615,26351,38848,20351,35338,52558,8911>>
    [] seed = "idea_gen_5_0_provider_type" -> <<14904,53312,46179,53290,11504,50971,60424,18969,13305,40632,21264,53914,16368,46609,48876,10053>>
    [] seed = "idea_gen_5_1_consumer_type" -> <<58121,2906,37898,22412,57479,35482,36661,22400,36105,13947,49069,4838,28885,3097,60083,15545>>
    [] seed = "idea_gen_5_2_specific_need" -> <<63357,31429,25556,18714,15846,40298,17640,58034,1378,36082,22404,45503,55996,47815,56587,23754>>
    [] seed = "idea_gen_5_0_sellers" -> <<55476,22268,15222,7892,61469,47935,52267,47997,5606,36197,27848,7009,45285,61007,21586,61672>>
    [] seed = "idea_gen_5_1_transact" -> <<31473,17786,29951,65519,30490,58551,22482,38539,667,60134,25926,45654,54174,1738,14025,20062>>
    [] seed = "idea_gen_5_2_buyers" -> <<22994,54952,47692,881,6542,49011,27018,23239,12396,708,22651,18156,34313,57125,43537,47902>>
    [] seed = "idea_gen_5_3_industry" -> <<60096,60043,26235,11708,60710,23232,42180,40886,7966,5306,35042,41128,3773,54706,21927,4066>>
    [] seed = "idea_gen_5_0_specialist_type" -> <<51828,12619,58275,2484,20806,17681,49819,33035,47,26561,18722,35944,46811,9860,21158,30018>>
    [] seed = "idea_gen_5_1_premium_service" -> <<25366,57252,6450,57775,43058,50070,7446,17566,21171,35938,25955,6662,30952,33357,2409,17474>>
    [] seed = "idea_gen_5_0_asset_type" -> <<11713,23968,44638,45676,30750,9791,44953,13686,46889,26629,47416,47113,58958,60845,36438,55563>>
    [] seed = "idea_gen_5_1_geographic_niche" -> <<37365,64508,1977,32271,11262,29238,49025,48392,20779,8079,49520,60943,38149,19384,39486,10600>>
    [] seed = "idea_gen_5_0_resource_type" -> <<37238,12016,41023,49271,33329,44764,35168,10039,15588,54861,2629,28212,4659,20700,29152,51364>>
    [] seed = "idea_gen_5_1_value_add" -> <<56288,25115,13459,20409,2827,56401,4765,26426,20595,46767,16644,2199,22920,58591,45360,55702>>
    [] seed = "idea_gen_5_0_service_type" -> <<8238,1114,17309,2415,12144,45400,30580,29191,28345,23434,40884,59501,56102,49625,10855,8362>>
    [] seed = "idea_gen_5_1_solves_problem" -> <<20222,44775,37863,12063,29352,45339,164,44243,59139,33586,39762,26305,27461,15790,26946,640>>
    [] seed = "idea_gen_5_2_unique_approach" -> <<61819,33442,22207,14464,39709,17529,47390,29787,53813,15877,37556,21821,39416,49504,1087,10904>>
    [] seed = "idea_gen_5_0_specific_metric" -> <<64090,13285,27722,57840,64695,63304,31401,61637,43558,21550,56182,42929,61357,65313,28660,47741>>
    [] seed = "idea_gen_5_1_tech_stack" -> <<34471,20896,26662,492,55554,55915,46098,8571,32725,22963,41654,6759,57137,37436,39566,64287>>
    [] seed = "idea_gen_5_0_simplifies" -> <<53988,4895,13098,19904,42171,64396,18112,50727,30968,47248,4274,18261,5200,30195,46414,13167>>
    [] seed = "idea_gen_5_1_target_audience" -> <<37713,41803,50616,38920,24854,25932,63102,53383,35725,40893,23003,38966,36503,23573,18199,56301>>
    [] seed = "idea_gen_5_0_threat_type" -> <<56980,12297,51854,25282,49624,53083,9846,1006,27882,48857,48838,35335,42818,62511,60648,19530>>
    [] seed = "idea_gen_5_1_risk_type" -> <<53829,7163,62063,56881,27381,42578,32167,16489,47973,52119,55022,1558,19757,6761,14166,25591>>
    [] seed = "idea_gen_5_2_environment" -> <<34794,41026,54147,53578,44556,36117,4558,13717,30174,26837,5654,56851,34783,9445,38472,28462>>
    [] seed = "idea_gen_5_0_enables" -> <<55049,37313,1683,44258,50779,16431,34175,11532,15845,33248,52014,50741,35470,46940,46067,53833>>
    [] seed = "idea_gen_5_1_innovation" -> <<45246,39285,15873,20055,4634,41629,62846,38326,8283,61481,19926,42977,52474,12167,37419,871>>
    [] seed = "idea_gen_5_0_use_case" -> <<56717,47756,31475,50621,61576,63275,7162,42721,23734,61874,46749,32818,61389,4276,35251,32154>>
    [] seed = "idea_gen_5_1_differentiator" -> <<61867,54749,30031,31669,27105,38101,50552,46524,30719,14283,47351,36010,18523,43990,61702,3875>>
    [] seed = "idea_gen_5_0_model_type" -> <<44756,36919,45743,23398,21110,16489,49678,40815,35462,4003,45342,26955,31294,16354,15595,22539>>
    [] seed = "idea_gen_5_1_data_type" -> <<60191,7660,64614,51630,37819,19262,56755,18901,4004,25561,55923,32870,18684,26509,64795,12875>>
    [] seed = "idea_gen_5_0_users" -> <<1704,25830,57346,748,23897,17911,8561,34754,14773,48267,64421,54721,46913,63363,42140,16943>>
    [] seed = "idea_gen_5_1_applications" -> <<21467,43333,41529,64328,43046,13331,36105,32086,40145,39803,10223,32119,53869,27603,20320,41130>>
    [] seed = "idea_gen_5_2_expertise" -> <<41930,40242,52907,46560,522,14203,8667,25640,24564,57721,26554,43369,64794,24644,13202,43053>>
    [] seed = "idea_gen_5_0_domain" -> <<8831,63234,64403,4211,21633,58213,34141,64111,46379,14673,48556,29399,48324,53082,11348,35186>>
    [] seed = "idea_gen_5_1_capability" -> <<57317,308,26285,27167,57612,59964,47040,42037,62242,36922,37437,34250,44324,59221,54302,6610>>
    [] seed = "idea_gen_5_2_technique" -> <<45739,2783,35786,49375,36967,48134,6743,59474,4845,36106,17190,21520,9180,32864,6446,14327>>
    [] seed = "idea_gen_5_1_purpose" -> <<22067,46428,44570,38092,9715,52371,5005,58415,56365,25640,35496,23174,50312,19191,55940,10045>>
    [] seed = "idea_gen_5_0_market_segment" -> <<8457,18156,65191,35963,35877,21554,41519,40769,63589,55875,48595,30430,24431,23798,53292,60122>>
    [] seed = "idea_gen_5_1_innovative_feature" -> <<43609,1399,2375,7314,31737,10375,30841,35423,18305,47189,11764,33350,40333,62641,12071,54091>>
    [] seed = "idea_gen_5_0_financial_process" -> <<53241,1639,29720,21931,2043,53140,8398,57296,24676,8562,20477,9111,2355,38429,53102,33288>>
    [] seed = "idea_gen_5_1_business_type" -> <<7200,43320,15976,34255,27524,56916,48353,63855,22863,13702,19587,17892,35289,42391,43630,48891>>
    [] seed = "idea_gen_5_0_regulation" -> <<33059,39485,49029,26412,52691,45135,51719,743,58321,21643,61728,63479,62199,63430,4751,54736>>
    [] seed = "idea_gen_5_1_industry" -> <<9261,56539,27808,12105,19956,41428,37982,48024,41197,1820,44182,61966,40304,5351,60068,46870>>
    [] seed = "idea_gen_5_1_platform_type" -> <<43448,16633,22342,27437,17182,42445,3529,24438,37074,730,42611,23740,62156,33618,11447,21533>>
    [] seed = "idea_gen_5_0_company_size" -> <<62035,31301,15102,45706,49610,40984,60557,24316,13018,32976,63684,21950,7509,43609,56524,9265>>
    [] seed = "idea_gen_5_1_ai_capability" -> <<27772,65002,42526,46029,26474,4702,1951,30866,47173,16094,34565,10758,21248,7556,47951,29961>>
    [] seed = "idea_gen_5_feature_0" -> <<51557,53182,49244,59705,53007,64988,42213,7216,59163,50852,2531,34177,43522,15971,6609,33519>>
    [] seed = "idea_gen_5_feature_1" -> <<28860,59439,37160,7641,29272,10322,25388,48686,54619,8448,18142,33546,9394,6346,62414,37657>>
    [] seed = "idea_gen_5_feature_2" -> <<7066,35251,6909,31560,60028,47601,25305,28478,40014,38355,3124,20980,64169,47927,50913,6835>>
    [] seed = "idea_gen_5_feature_3" -> <<22484,1776,5624,706,16620,16712,12558,49508,38250,59190,39875,50096,31086,52208,49770,46037>>
    [] seed = "idea_gen_5_feature_4" -> <<26267,1289,17337,16328,60663,3929,10057,21762,2534,35223,28555,53504,8532,26245,11657,1772>>
    [] seed = "idea_gen_5_feature_5" -> <<10647,52107,13738,13975,64494,24055,32271,45898,19569,5680,3826,1060,47233,11245,59828,21839>>
    [] seed = "idea_gen_5_feature_6" -> <<53025,10755,16631,50169,47989,5308,55028,32158,35767,38466,62131,64892,61350,36168,43900,45882>>
    [] seed = "idea_gen_5_feature_7" -> <<54789,59924,43637,1814,27001,6561,21537,60178,22835,11171,32727,6374,63632,53596,37080,37434>>
    [] seed = "idea_gen_5_feature_8" -> <<50196,1520,15883,34965,59810,9708,3579,44753,22497,6965,29322,21986,5272,56692,34723,4594>>
    [] seed = "idea_gen_5_feature_9" -> <<14079,58367,2479,5187,63459,51046,49606,42705,12912,38585,51102,6104,63383,17909,52577,11762>>
    [] seed = "idea_gen_5_monetization" -> <<34842,58320,47454,34963,23647,42550,12261,45433,30667,26775,25352,64695,4855,20345,30737,13307>>
    [] seed = "idea_gen_5_audience" -> <<64800,5327,63532,35104,35019,242,9097,30054,45438,33202,37835,51163,14296,17518,56447,1522>>
    [] seed = "idea_gen_5_tech" -> <<63791,15702,42074,58825,48920,42347,29951,24326,48003,23562,25563,20425,4653,29507,50160,24237>>


(***************************************************************************)
(* scripts/generate.py: deterministic_choice and generate_fallback_idea    *)
(***************************************************************************)
RECURSIVE DigestMod(_, _, _, _)
\* int(hexdigest, 16) % n, word by word from the most significant one
DigestMod(words, i, acc, n) ==
  IF i > Len(words) THEN acc
  ELSE DigestMod(words, i + 1, (acc * 65536 + words[i]) % n, n)

\* deterministic_choice reading only the first eight hex digits of the digest
deterministic_choice_truncated(seed, options) ==
  options[DigestMod(SubSeq(sha256(seed), 1, 2), 1, 0, Len(options)) + 1]

deterministic_choice(seed, options) ==
  options[DigestMod(sha256(seed), 1, 0, Len(options)) + 1]

\* a call of deterministic_choice answering None for an empty list
deterministic_choice_or_none(seed, options) ==
  IF Len(options) = 0 THEN [raised |-> FALSE, value |-> None]
  ELSE [raised |-> FALSE, value |-> deterministic_choice(seed, options)]

\* a call of deterministic_choice and how it ends: hash_val % len(options)
\* raises ZeroDivisionError when the list is empty
deterministic_choice_call(seed, options) ==
  IF Len(options) = 0 THEN [raised |-> TRUE, value |-> <<"Z","e","r","o","D","i","v","i","s","i","o","n","E","r","r","o","r">>]
  ELSE [raised |-> FALSE, value |-> deterministic_choice(seed, options)]

\* the names of the placeholders, each once, in the order of their first match
Placeholders_once(template) ==
  LET firsts == {i \in DOMAIN template :
                   /\ template[i].ph
                   /\ \A j \in 1..(i - 1) :
                        ~(template[j].ph /\ template[j].name = template[i].name)}
  IN  [k \in 1..Cardinality(firsts) |-> template[Nth(firsts, k)].name]

\* the names matched by re.finditer(r'\{(\w+)\}', template), in order
Placeholders(template) ==
  LET phs == SelectSeq(template, LAMBDA piece : piece.ph)
  IN  [i \in 1..Len(phs) |-> phs[i].name]

\* filled_template.replace("{name}", choice, 1): the first piece that still is
\* the placeholder name becomes the literal choice
ReplaceFirst(filled, name, choice) ==
  IF \E k \in DOMAIN filled : filled[k].ph /\ filled[k].name = name
  THEN LET k == CHOOSE j \in DOMAIN filled :
                  /\ filled[j].ph /\ filled[j].name = name
                  /\ \A h \in 1..(j - 1) : ~(filled[h].ph /\ filled[h].name = name)
       IN  [filled EXCEPT ![k] = [ph |-> FALSE, name |-> "", text |-> choice]]
  ELSE filled

RECURSIVE FillFrom_until_unknown(_, _, _, _, _)
\* the loop over enumerate(placeholders) leaving at the first name the registry
\* lacks
FillFrom_until_unknown(filled, placeholders, i, seed, variables) ==
  IF i >= Len(placeholders) THEN filled
  ELSE LET placeholder == placeholders[i + 1]
       IN  IF placeholder \in DOMAIN variables
           THEN FillFrom_until_unknown(
                  ReplaceFirst(filled, placeholder,
                    deterministic_choice(seed \o "_" \o ToString(i) \o "_" \o placeholder,
                                         variables[placeholder])),
                  placeholders, i + 1, seed, variables)
           ELSE filled

RECURSIVE FillFrom(_, _, _, _, _)
\* the loop over enumerate(placeholders), from index i (0-based) on
FillFrom(filled, placeholders, i, seed, variables) ==
  IF i >= Len(placeholders) THEN filled
  ELSE LET placeholder == placeholders[i + 1]
       IN  IF placeholder \in DOMAIN variables
           THEN FillFrom(ReplaceFirst(filled, placeholder,
                           deterministic_choice(seed \o "_" \o ToString(i) \o "_" \o placeholder,
                                                variables[placeholder])),
                         placeholders, i + 1, seed, variables)
           ELSE FillFrom(filled, placeholders, i + 1, seed, variables)

\* the text of a template, filled or not
TemplateText(template) == concat([i \in 1..Len(template) |-> template[i].text])

fill_template(template, seed, variables) ==
  TemplateText(FillFrom(template, Placeholders(template), 0, seed, variables))

ARTICLES == {<<"a">>, <<"a","n">>, <<"t","h","e">>}

STOP_WORDS ==
  {<<"a">>, <<"a","n">>, <<"t","h","e">>, <<"f","o","r">>, <<"i","n">>, <<"o","n">>, <<"a","t">>, <<"t","o">>, <<"b","y">>, <<"w","i","t","h">>,
   <<"a","n","d">>, <<"o","r">>, <<"t","h","a","t">>, <<"o","f">>}

PUNCTUATION == {".", ",", ";", ":", "(", ")"}

MAX_TITLE_WORDS == 10

\* the title derivation taking the first ten words, a leading article included
derive_title_keeping_article(description) ==
  LET pieces == split(description)
      stripped == [i \in 1..Len(pieces) |-> strip(pieces[i], PUNCTUATION)]
      words == SelectSeq(stripped, LAMBDA w : w # <<>>)
      title_words == Take(words, MAX_TITLE_WORDS)
      cased == [i \in 1..Len(title_words) |->
                  IF lower(title_words[i]) \notin STOP_WORDS
                  THEN capitalize(title_words[i]) ELSE lower(title_words[i])]
      title == join(<<" ">>, cased)
  IN  IF title # <<>> THEN <<char_upper(title[1])>> \o Tail(title) ELSE title

derive_title(description) ==
  LET pieces == split(description)
      stripped == [i \in 1..Len(pieces) |-> strip(pieces[i], PUNCTUATION)]
      words == SelectSeq(stripped, LAMBDA w : w # <<>>)
      start_idx == IF words # <<>> /\ lower(words[1]) \in ARTICLES THEN 1 ELSE 0
      stop == IF start_idx + MAX_TITLE_WORDS < Len(words)
              THEN start_idx + MAX_TITLE_WORDS ELSE Len(words)
      title_words == SubSeq(words, start_idx + 1, stop)
      cased == [i \in 1..Len(title_words) |->
                  IF lower(title_words[i]) \notin STOP_WORDS
                  THEN capitalize(title_words[i]) ELSE lower(title_words[i])]
      title == join(<<" ">>, cased)
  IN  IF title # <<>> THEN <<char_upper(title[1])>> \o Tail(title) ELSE title

DEFAULT_FEATURES ==
  <<<<"A","d","v","a","n","c","e","d"," ","f","e","a","t","u","r","e","s">>, <<"U","s","e","r","-","f","r","i","e","n","d","l","y"," ","i","n","t","e","r","f","a","c","e">>, <<"S","c","a","l","a","b","l","e"," ","a","r","c","h","i","t","e","c","t","u","r","e">>>>

FEATURE_COUNT == 3

MAX_FEATURE_ATTEMPTS == 10

RECURSIVE select_features_with_repeats(_, _, _, _)
\* the while loop appending every choice
select_features_with_repeats(features, i, seed, base_features) ==
  IF Len(features) < FEATURE_COUNT /\ i < MAX_FEATURE_ATTEMPTS
  THEN LET feature == deterministic_choice(seed \o "_feature_" \o ToString(i), base_features)
       IN  select_features_with_repeats(Append(features, feature), i + 1, seed, base_features)
  ELSE [features |-> features, i |-> i]

RECURSIVE select_features(_, _, _, _)
\* the while loop: features found so far, attempt counter i; the list and the
\* counter the loop ends with
select_features(features, i, seed, base_features) ==
  IF Len(features) < FEATURE_COUNT /\ i < MAX_FEATURE_ATTEMPTS
  THEN LET feature == deterministic_choice(seed \o "_feature_" \o ToString(i), base_features)
       IN  select_features(IF ~InList(feature, features) THEN Append(features, feature)
                           ELSE features,
                           i + 1, seed, base_features)
  ELSE [features |-> features, i |-> i]

generate_fallback_idea(run_count) ==
  LET seed == "idea_gen_" \o ToString(run_count)
      category_data == deterministic_choice(seed \o "_category", IDEA_TEMPLATES)
      category == category_data.category
      template == deterministic_choice(seed \o "_template", category_data.templates)
      description == fill_template(template, seed, IDEA_VARIABLES)
      base_features == IF category \in DOMAIN feature_templates
                       THEN feature_templates[category] ELSE DEFAULT_FEATURES
  IN  [title |-> derive_title(description),
       description |-> description,
       category |-> category,
       target_audience |-> deterministic_choice(seed \o "_audience", audience_options),
       key_features |-> select_features(<<>>, 0, seed, base_features).features,
       monetization |-> deterministic_choice(seed \o "_monetization", monetization_options),
       technical_approach |-> deterministic_choice(seed \o "_tech", tech_options)]

(***************************************************************************)
(* scripts/iterate.py: project directories and the files under them        *)
(***************************************************************************)
\* A pathlib.Path is the sequence of its components below the file-system root.
ROOT_DIR == <<<<"r","e","p","o">>>>

PROJECTS_DIR == ROOT_DIR \o <<<<"p","r","o","j","e","c","t","s">>>>

ALNUM == Chars(ascii_lowercase) \cup Chars(ascii_uppercase) \cup Chars(digits)

MAX_NAME_LEN == 50

\* re.sub(r'\s+', '-', s): every maximal run of whitespace becomes one hyphen
sub_whitespace_runs(s) ==
  LET marked == [i \in 1..Len(s) |->
                   IF s[i] \notin whitespace THEN s[i]
                   ELSE IF i = 1 \/ s[i - 1] \notin whitespace THEN "-" ELSE "drop"]
  IN  IF s = <<>> THEN <<>> ELSE SelectSeq(marked, LAMBDA c : c # "drop")

\* sanitize_project_name without the slice [:50]
sanitize_project_name_unbounded(title) ==
  LET kept == SelectSeq(title, LAMBDA c : c \in ALNUM \cup whitespace \cup {"-"})
      name == lower(sub_whitespace_runs(strip(kept, whitespace)))
  IN  IF name # <<>> THEN name ELSE <<"u","n","n","a","m","e","d","-","p","r","o","j","e","c","t">>

sanitize_project_name(title) ==
  LET kept == SelectSeq(title, LAMBDA c : c \in ALNUM \cup whitespace \cup {"-"})
      name == Take(lower(sub_whitespace_runs(strip(kept, whitespace))), MAX_NAME_LEN)
  IN  IF name # <<>> THEN name ELSE <<"u","n","n","a","m","e","d","-","p","r","o","j","e","c","t">>

\* idea['title'] raises KeyError when the idea has no title, and re.sub raises
\* TypeError when the title is not a str
get_project_dir_raises(idea) == "title" \notin DOMAIN idea \/ idea.title = None

\* get_project_dir naming the directory by the slug alone
get_project_dir_by_title(idea) ==
  PROJECTS_DIR \o <<<<"i","d","e","a","-">> \o sanitize_project_name(idea.title)>>

get_project_dir(idea) ==
  PROJECTS_DIR
    \o <<<<"i","d","e","a","-">> \o str_int(idea.id) \o <<"-">> \o sanitize_project_name(idea.title)>>

\* the pieces of s between the characters of seps, empty pieces dropped
split_on(s, seps) ==
  LET starts == {i \in 1..Len(s) : s[i] \notin seps /\ (i = 1 \/ s[i - 1] \in seps)}
      ends == {i \in 1..Len(s) : s[i] \notin seps /\ (i = Len(s) \/ s[i + 1] \in seps)}
  IN  [k \in 1..Cardinality(starts) |-> SubSeq(s, Nth(starts, k), Nth(ends, k))]

\* str(path)
str_path(path) == IF path = <<>> THEN <<"/">> ELSE <<"/">> \o join(<<"/">>, path)

\* dir / s for a string s: an absolute s replaces dir
path_join(dir, s) ==
  IF s # <<>> /\ s[1] = "/" THEN split_on(s, {"/"}) ELSE dir \o split_on(s, {"/"})

RECURSIVE resolve_from(_, _)
\* the location the operating system resolves a path to: . stays, .. goes up
resolve_from(path, done) ==
  IF path = <<>> THEN done
  ELSE IF Head(path) = <<".">> THEN resolve_from(Tail(path), done)
  ELSE IF Head(path) = <<".",".">>
       THEN resolve_from(Tail(path),
                         IF done = <<>> THEN done ELSE SubSeq(done, 1, Len(done) - 1))
  ELSE resolve_from(Tail(path), Append(done, Head(path)))

resolve(path) == resolve_from(path, <<>>)

\* Path.parent
parent(path) == IF path = <<>> THEN path ELSE SubSeq(path, 1, Len(path) - 1)

\* Path.name
basename(path) == IF path = <<>> THEN <<>> ELSE path[Len(path)]

\* Path.suffix: from the last dot of the name, unless it starts or ends the name
suffix(path) ==
  LET name == basename(path)
      dots == {i \in 1..Len(name) : name[i] = "."}
      i == CHOOSE d \in dots : \A e \in dots : e <= d
  IN  IF dots # {} /\ 1 < i /\ i < Len(name) THEN SubSeq(name, i, Len(name)) ELSE <<>>

\* path lies under dir
IsUnder(path, dir) == Len(path) > Len(dir) /\ SubSeq(path, 1, Len(dir)) = dir

\* Path.relative_to(dir) of a path under dir
relative_to(path, dir) == SubSeq(path, Len(dir) + 1, Len(path))

\* Path.mkdir(parents=True, exist_ok=True)
mkdir(fsys, path) ==
  LET at == resolve(path)
  IN  [fsys EXCEPT !.dirs = @ \cup {SubSeq(at, 1, k) : k \in 1..Len(at)}]

\* Path.write_text(content): a new file is not executable, an old one keeps its mode
write_text(fsys, path, content) ==
  LET at == resolve(path)
  IN  [fsys EXCEPT !.files =
         (at :> [content |-> content,
                 executable |-> IF at \in DOMAIN @ THEN @[at].executable ELSE FALSE]) @@ @]

\* Path.chmod(0o755)
chmod_755(fsys, path) ==
  [fsys EXCEPT !.files = [@ EXCEPT ![resolve(path)].executable = TRUE]]

SKIP == <<<<".","g","i","t">>, <<"_","_","p","y","c","a","c","h","e","_","_">>, <<"n","o","d","e","_","m","o","d","u","l","e","s">>, <<".","e","n","v">>>>

scan_existing_project(project_dir, fsys) ==
  IF project_dir \notin fsys.dirs
  THEN [exists |-> FALSE, files |-> {}]
  ELSE LET files == {Tail(str_path(relative_to(item, project_dir))) :
                       item \in {p \in DOMAIN fsys.files :
                                   /\ IsUnder(p, project_dir)
                                   /\ ~\E k \in DOMAIN SKIP :
                                         Contains(str_path(p), SKIP[k])}}
       IN  [exists |-> TRUE, files |-> files, file_count |-> Cardinality(files)]

(***************************************************************************)
(* scripts/iterate.py: the template families                               *)
(***************************************************************************)
\* str(KeyError(key)): the key in quotes
KeyErrorText(key) ==
  <<"'">> \o (CASE key = "title" -> <<"t","i","t","l","e">>
                [] key = "description" -> <<"d","e","s","c","r","i","p","t","i","o","n">>
                [] key = "category" -> <<"c","a","t","e","g","o","r","y">>
                [] key = "key_features" -> <<"k","e","y","_","f","e","a","t","u","r","e","s">>
                [] key = "target_audience" -> <<"t","a","r","g","e","t","_","a","u","d","i","e","n","c","e">>
                [] key = "technical_approach" -> <<"t","e","c","h","n","i","c","a","l","_","a","p","p","r","o","a","c","h">>
                [] key = "iteration" -> <<"i","t","e","r","a","t","i","o","n">>
                [] key = "created_at" -> <<"c","r","e","a","t","e","d","_","a","t">>
                [] key = "files" -> <<"f","i","l","e","s">>) \o <<"'">>

\* the first key of keys (in the order the code reads them) the dict lacks
FirstMissing(dict, keys) ==
  keys[CHOOSE i \in DOMAIN keys :
         /\ keys[i] \notin DOMAIN dict
         /\ \A j \in 1..(i - 1) : keys[j] \in DOMAIN dict]

\* the keys of the idea the f-strings of generate_dev_tools_template read, in order
DEV_TOOLS_KEYS ==
  <<"title", "description", "key_features", "target_audience", "technical_approach",
    "iteration", "created_at">>

generate_dev_tools_template(idea) ==
  [files |->
     <<[path |-> <<"m","a","i","n",".","p","y">>,
        content |-> [template |-> "dev_tools/main.py", title |-> idea.title,
                     description |-> idea.description]],
       [path |-> <<"i","n","d","e","x",".","h","t","m","l">>,
        content |-> [template |-> "dev_tools/index.html", title |-> idea.title,
                     description |-> Take(idea.description, 200),
                     key_features |-> Take(idea.key_features, 3)]],
       [path |-> <<"R","E","A","D","M","E",".","m","d">>,
        content |-> [template |-> "dev_tools/README.md", title |-> idea.title,
                     description |-> idea.description,
                     key_features |-> Take(idea.key_features, 5),
                     target_audience |-> idea.target_audience,
                     technical_approach |-> idea.technical_approach,
                     iteration |-> idea.iteration + 1,
                     created_at |-> idea.created_at]]>>,
   entry_point |-> <<"m","a","i","n",".","p","y">>,
   description |-> <<"G","e","n","e","r","a","t","e","d"," ","M","V","P"," ","f","o","r"," ">> \o idea.title,
   next_steps |-> <<<<"A","d","d"," ","a","u","t","h","e","n","t","i","c","a","t","i","o","n">>, <<"I","m","p","l","e","m","e","n","t"," ","d","a","t","a"," ","p","e","r","s","i","s","t","e","n","c","e">>,
                    <<"A","d","d"," ","m","o","r","e"," ","f","e","a","t","u","r","e","s">>>>]

\* the keys of the idea the f-strings of generate_saas_template read, in order
SAAS_KEYS == <<"title", "key_features", "description">>

generate_saas_template(idea) ==
  [files |->
     <<[path |-> <<"m","a","i","n",".","p","y">>,
        content |-> [template |-> "saas/main.py", title |-> idea.title]],
       [path |-> <<"i","n","d","e","x",".","h","t","m","l">>,
        content |-> [template |-> "saas/index.html", title |-> idea.title,
                     key_features |-> Take(idea.key_features, 5)]],
       [path |-> <<"R","E","A","D","M","E",".","m","d">>,
        content |-> [template |-> "saas/README.md", title |-> idea.title,
                     description |-> idea.description,
                     key_features |-> Take(idea.key_features, 5)]]>>,
   entry_point |-> <<"m","a","i","n",".","p","y">>,
   description |-> <<"S","a","a","S"," ","d","a","s","h","b","o","a","r","d"," ","f","o","r"," ">> \o idea.title,
   next_steps |-> <<<<"A","d","d"," ","u","s","e","r"," ","a","u","t","h","e","n","t","i","c","a","t","i","o","n">>, <<"I","m","p","l","e","m","e","n","t"," ","r","e","a","l"," ","d","a","t","a"," ","s","t","o","r","a","g","e">>,
                    <<"A","d","d"," ","c","h","a","r","t","s">>>>]

generate_api_service_template(idea) == generate_dev_tools_template(idea)

generate_marketplace_template(idea) == generate_saas_template(idea)

generate_dashboard_template(idea) == generate_saas_template(idea)

generate_generic_web_app(idea) == generate_dev_tools_template(idea)

\* the keys the template generate_code_template dispatches to reads
TemplateKeys(category) ==
  IF category = <<"D","e","v","e","l","o","p","e","r"," ","T","o","o","l","s">> THEN DEV_TOOLS_KEYS
  ELSE IF category = <<"S","a","a","S"," ","&"," ","P","r","o","d","u","c","t","i","v","i","t","y">> THEN SAAS_KEYS
  ELSE IF category \in {<<"I","n","f","r","a","s","t","r","u","c","t","u","r","e"," ","&"," ","D","e","v","O","p","s">>, <<"A","I"," ","&"," ","M","a","c","h","i","n","e"," ","L","e","a","r","n","i","n","g">>}
       THEN DEV_TOOLS_KEYS
  ELSE IF category = <<"N","i","c","h","e"," ","M","a","r","k","e","t","p","l","a","c","e","s">> THEN SAAS_KEYS
  ELSE IF category = <<"F","i","n","t","e","c","h"," ","&"," ","B","u","s","i","n","e","s","s">> THEN SAAS_KEYS
  ELSE DEV_TOOLS_KEYS

\* the key whose KeyError generate_code_template raises, "" when it raises none
generate_code_template_error(idea) ==
  IF "category" \notin DOMAIN idea THEN "category"
  ELSE IF \E i \in DOMAIN TemplateKeys(idea.category) :
            TemplateKeys(idea.category)[i] \notin DOMAIN idea
       THEN FirstMissing(idea, TemplateKeys(idea.category))
  ELSE ""

generate_code_template(idea) ==
  LET category == idea.category
  IN  IF category = <<"D","e","v","e","l","o","p","e","r"," ","T","o","o","l","s">> THEN generate_dev_tools_template(idea)
      ELSE IF category = <<"S","a","a","S"," ","&"," ","P","r","o","d","u","c","t","i","v","i","t","y">> THEN generate_saas_template(idea)
      ELSE IF category \in {<<"I","n","f","r","a","s","t","r","u","c","t","u","r","e"," ","&"," ","D","e","v","O","p","s">>, <<"A","I"," ","&"," ","M","a","c","h","i","n","e"," ","L","e","a","r","n","i","n","g">>}
           THEN generate_api_service_template(idea)
      ELSE IF category = <<"N","i","c","h","e"," ","M","a","r","k","e","t","p","l","a","c","e","s">> THEN generate_marketplace_template(idea)
      ELSE IF category = <<"F","i","n","t","e","c","h"," ","&"," ","B","u","s","i","n","e","s","s">> THEN generate_dashboard_template(idea)
      ELSE generate_generic_web_app(idea)

(***************************************************************************)
(* scripts/iterate.py: write_project_files and iterate_idea                *)
(***************************************************************************)
\* str(e) of the OSError a failed write_text raises
OSErrorText == <<"[","E","r","r","n","o"," ","2","8","]"," ","N","o"," ","s","p","a","c","e"," ","l","e","f","t"," ","o","n"," ","d","e","v","i","c","e">>

RECURSIVE write_files(_, _, _, _, _)
\* the loop over files_data['files'] from the k-th file on; fault is the number
\* of the write_text call that raises OSError (0: none does)
write_files(project_dir, files, k, fsys, fault) ==
  IF k > Len(files) THEN [raised |-> FALSE, fs |-> fsys]
  ELSE LET file_path == path_join(project_dir, files[k].path)
           made == mkdir(fsys, parent(file_path))
           written == write_text(made, file_path, files[k].content)
       IN  IF fault = k THEN [raised |-> TRUE, fs |-> made]
           ELSE write_files(project_dir, files, k + 1,
                            IF suffix(file_path) = <<".","p","y">>
                            THEN chmod_755(written, file_path) ELSE written,
                            fault)

\* write_project_files emptying the project directory first
write_project_files_after_wipe(project_dir, files_data, fsys, fault) ==
  LET kept == {p \in DOMAIN fsys.files : ~IsUnder(p, project_dir)}
      wiped == [fsys EXCEPT !.files = [p \in kept |-> fsys.files[p]]]
      made == mkdir(wiped, project_dir)
      loop == write_files(project_dir, files_data.files, 1, made, fault)
      n == Len(files_data.files)
      entry_point == IF "entry_point" \in DOMAIN files_data
                     THEN files_data.entry_point ELSE <<"m","a","i","n",".","p","y">>
      replit == write_text(loop.fs, path_join(project_dir, <<".","r","e","p","l","i","t">>),
                           [template |-> ".replit", entry_point |-> entry_point])
      nix == write_text(replit, path_join(project_dir, <<"r","e","p","l","i","t",".","n","i","x">>),
                        [template |-> "replit.nix"])
  IN  IF "files" \notin DOMAIN files_data
      THEN [raised |-> TRUE, error |-> KeyErrorText("files"), fs |-> made]
      ELSE IF loop.raised THEN [raised |-> TRUE, error |-> OSErrorText, fs |-> loop.fs]
      ELSE IF fault = n + 1 THEN [raised |-> TRUE, error |-> OSErrorText, fs |-> loop.fs]
      ELSE IF fault = n + 2 THEN [raised |-> TRUE, error |-> OSErrorText, fs |-> replit]
      ELSE [raised |-> FALSE, error |-> <<>>, fs |-> nix]

\* write_project_files naming main.py in .replit whatever files_data says
write_project_files_naming_main(project_dir, files_data, fsys, fault) ==
  LET made == mkdir(fsys, project_dir)
      loop == write_files(project_dir, files_data.files, 1, made, fault)
      n == Len(files_data.files)
      replit == write_text(loop.fs, path_join(project_dir, <<".","r","e","p","l","i","t">>),
                           [template |-> ".replit", entry_point |-> <<"m","a","i","n",".","p","y">>])
      nix == write_text(replit, path_join(project_dir, <<"r","e","p","l","i","t",".","n","i","x">>),
                        [template |-> "replit.nix"])
  IN  IF "files" \notin DOMAIN files_data
      THEN [raised |-> TRUE, error |-> KeyErrorText("files"), fs |-> made]
      ELSE IF loop.raised THEN [raised |-> TRUE, error |-> OSErrorText, fs |-> loop.fs]
      ELSE IF fault = n + 1 THEN [raised |-> TRUE, error |-> OSErrorText, fs |-> loop.fs]
      ELSE IF fault = n + 2 THEN [raised |-> TRUE, error |-> OSErrorText, fs |-> replit]
      ELSE [raised |-> FALSE, error |-> <<>>, fs |-> nix]

\* write_project_files undoing its writes when one of them fails
write_project_files_rolling_back(project_dir, files_data, fsys, fault) ==
  LET made == mkdir(fsys, project_dir)
      loop == write_files(project_dir, files_data.files, 1, made, fault)
      n == Len(files_data.files)
      entry_point == IF "entry_point" \in DOMAIN files_data
                     THEN files_data.entry_point ELSE <<"m","a","i","n",".","p","y">>
      replit == write_text(loop.fs, path_join(project_dir, <<".","r","e","p","l","i","t">>),
                           [template |-> ".replit", entry_point |-> entry_point])
      nix == write_text(replit, path_join(project_dir, <<"r","e","p","l","i","t",".","n","i","x">>),
                        [template |-> "replit.nix"])
  IN  IF "files" \notin DOMAIN files_data
      THEN [raised |-> TRUE, error |-> KeyErrorText("files"), fs |-> made]
      ELSE IF loop.raised \/ fault = n + 1 \/ fault = n + 2
      THEN [raised |-> TRUE, error |-> OSErrorText, fs |-> fsys]
      ELSE [raised |-> FALSE, error |-> <<>>, fs |-> nix]

write_project_files(project_dir, files_data, fsys, fault) ==
  LET made == mkdir(fsys, project_dir)
      loop == write_files(project_dir, files_data.files, 1, made, fault)
      n == Len(files_data.files)
      entry_point == IF "entry_point" \in DOMAIN files_data
                     THEN files_data.entry_point ELSE <<"m","a","i","n",".","p","y">>
      replit == write_text(loop.fs, path_join(project_dir, <<".","r","e","p","l","i","t">>),
                           [template |-> ".replit", entry_point |-> entry_point])
      nix == write_text(replit, path_join(project_dir, <<"r","e","p","l","i","t",".","n","i","x">>),
                        [template |-> "replit.nix"])
  IN  IF "files" \notin DOMAIN files_data
      THEN [raised |-> TRUE, error |-> KeyErrorText("files"), fs |-> made]
      ELSE IF loop.raised THEN [raised |-> TRUE, error |-> OSErrorText, fs |-> loop.fs]
      ELSE IF fault = n + 1 THEN [raised |-> TRUE, error |-> OSErrorText, fs |-> loop.fs]
      ELSE IF fault = n + 2 THEN [raised |-> TRUE, error |-> OSErrorText, fs |-> replit]
      ELSE [raised |-> FALSE, error |-> <<>>, fs |-> nix]

\* the keys of the idea the prompt of generate_code_with_openai reads, in order
PROMPT_KEYS ==
  <<"title", "description", "category", "target_audience", "key_features",
    "technical_approach", "iteration">>

\* one request; response is what the API answers: [ok |-> TRUE, data |-> the JSON
\* object of the reply] or [ok |-> FALSE, error |-> the text of the exception]
generate_code_with_openai(idea, project_info, response) ==
  IF \E i \in DOMAIN PROMPT_KEYS : PROMPT_KEYS[i] \notin DOMAIN idea
  THEN [raised |-> TRUE, error |-> KeyErrorText(FirstMissing(idea, PROMPT_KEYS))]
  ELSE IF response.ok THEN [raised |-> FALSE, data |-> response.data]
  ELSE [raised |-> TRUE, error |-> response.error]

\* code_data.get(key, default)
Get(dict, key, default) == IF key \in DOMAIN dict THEN dict[key] ELSE default

\* the try block's value: the code data, or the exception raised on the way
generate_code(idea, project_info, api_key, response) ==
  IF api_key THEN generate_code_with_openai(idea, project_info, response)
  ELSE IF generate_code_template_error(idea) # ""
       THEN [raised |-> TRUE, error |-> KeyErrorText(generate_code_template_error(idea))]
  ELSE [raised |-> FALSE, data |-> generate_code_template(idea)]

\* the body of the try block after the files are written, without its
\* idea["project_path"] = ...
record_success_without_project_path(idea, project_dir, code_data, clock) ==
  LET iteration == idea.iteration + 1
      history_entry == [iteration |-> iteration,
                        timestamp |-> clock,
                        description |-> Get(code_data, "description", <<"C","o","d","e"," ","g","e","n","e","r","a","t","e","d">>),
                        files_created |-> Len(code_data.files),
                        next_steps |-> Get(code_data, "next_steps", <<>>)]
  IN  ("iteration" :> iteration) @@ ("updated_at" :> clock)
        @@ ("history" :> Append(idea.history, history_entry)) @@ idea

\* the body of the try block taking the idea's description from code_data too
record_success_updating_description(idea, project_dir, code_data, clock) ==
  LET iteration == idea.iteration + 1
      history_entry == [iteration |-> iteration,
                        timestamp |-> clock,
                        description |-> Get(code_data, "description", <<"C","o","d","e"," ","g","e","n","e","r","a","t","e","d">>),
                        files_created |-> Len(code_data.files),
                        next_steps |-> Get(code_data, "next_steps", <<>>)]
  IN  ("iteration" :> iteration) @@ ("updated_at" :> clock)
        @@ ("description" :> Get(code_data, "description", <<"C","o","d","e"," ","g","e","n","e","r","a","t","e","d">>))
        @@ ("project_path" :> Tail(str_path(relative_to(project_dir, ROOT_DIR))))
        @@ ("history" :> Append(idea.history, history_entry)) @@ idea

\* the body of the try block after the files are written
record_success(idea, project_dir, code_data, clock) ==
  LET iteration == idea.iteration + 1
      history_entry == [iteration |-> iteration,
                        timestamp |-> clock,
                        description |-> Get(code_data, "description", <<"C","o","d","e"," ","g","e","n","e","r","a","t","e","d">>),
                        files_created |-> Len(code_data.files),
                        next_steps |-> Get(code_data, "next_steps", <<>>)]
  IN  ("iteration" :> iteration) @@ ("updated_at" :> clock)
        @@ ("project_path" :> Tail(str_path(relative_to(project_dir, ROOT_DIR))))
        @@ ("history" :> Append(idea.history, history_entry)) @@ idea

\* the except block without its idea["iteration"] += 1
record_failure_without_increment(idea, error, clock) ==
  ("updated_at" :> clock)
    @@ ("history" :> Append(idea.history,
                            [iteration |-> idea.iteration,
                             timestamp |-> clock,
                             description |-> <<"C","o","d","e"," ","g","e","n","e","r","a","t","i","o","n"," ","f","a","i","l","e","d",":"," ">> \o error,
                             error |-> TRUE])) @@ idea

\* the except block
record_failure(idea, error, clock) ==
  LET iteration == idea.iteration + 1
  IN  ("iteration" :> iteration) @@ ("updated_at" :> clock)
        @@ ("history" :> Append(idea.history,
                                [iteration |-> iteration,
                                 timestamp |-> clock,
                                 description |-> <<"C","o","d","e"," ","g","e","n","e","r","a","t","i","o","n"," ","f","a","i","l","e","d",":"," ">> \o error,
                                 error |-> TRUE])) @@ idea

\* iterate_idea(idea, api_key) on the file system fsys at time clock; env is what
\* the surroundings do during the call: scan_error (scanning the directory raises
\* OSError), response (the API's answer) and fault (see write_files).  The value
\* tells whether the call raised, the idea and the file system after it, and
\* what it returned.
iterate_idea(idea, api_key, fsys, clock, env) ==
  IF get_project_dir_raises(idea) \/ env.scan_error
  THEN [raised |-> TRUE, idea |-> idea, fs |-> fsys, result |-> <<>>]
  ELSE LET project_dir == get_project_dir(idea)
           project_info == scan_existing_project(project_dir, fsys)
           code == generate_code(idea, project_info, api_key, env.response)
           write == write_project_files(project_dir, code.data, fsys, env.fault)
       IN  IF code.raised
           THEN [raised |-> FALSE, idea |-> record_failure(idea, code.error, clock),
                 fs |-> fsys, result |-> [error |-> code.error]]
           ELSE IF write.raised
           THEN [raised |-> FALSE, idea |-> record_failure(idea, write.error, clock),
                 fs |-> write.fs, result |-> [error |-> write.error]]
           ELSE [raised |-> FALSE,
                 idea |-> record_success(idea, project_dir, code.data, clock),
                 fs |-> write.fs, result |-> code.data]

(***************************************************************************)
(* scripts/generate.py: generate_idea                                      *)
(***************************************************************************)

\* generation invocations
MaxIdeas == 2

\* generate_fallback_idea(run_count) for the run counts a generation can meet
fallback_ideas == [run_count \in 0..MaxIdeas |-> generate_fallback_idea(run_count)]

\* one request, as in generate_code_with_openai
generate_with_openai(response) ==
  IF response.ok THEN [raised |-> FALSE, data |-> response.data]
  ELSE [raised |-> TRUE, error |-> response.error]

\* generate_idea with a second request after a failed one
generate_idea_with_retry(state, api_key, responses, created, updated) ==
  LET first == generate_with_openai(responses[1])
      remote == IF first.raised THEN generate_with_openai(responses[2]) ELSE first
      idea_content == IF api_key /\ ~remote.raised THEN remote.data
                      ELSE fallback_ideas[state.metadata.total_runs]
      idea_id == Len(state.ideas) + 1
  IN  [idea |-> DictMerge(DictMerge([id |-> idea_id,
                                     created_at |-> created,
                                     updated_at |-> updated,
                                     iteration |-> 0],
                                    idea_content),
                          [history |-> <<>>]),
       requests |-> IF ~api_key THEN 0 ELSE IF first.raised THEN 2 ELSE 1]

\* generate_idea(state); responses are the answers the API would give to the
\* first, second, ... request of this call, created and updated the two clock
\* readings.  requests counts the requests made.
generate_idea(state, api_key, responses, created, updated) ==
  LET remote == generate_with_openai(responses[1])
      idea_content == IF api_key /\ ~remote.raised THEN remote.data
                      ELSE fallback_ideas[state.metadata.total_runs]
      idea_id == Len(state.ideas) + 1
  IN  [idea |-> DictMerge(DictMerge([id |-> idea_id,
                                     created_at |-> created,
                                     updated_at |-> updated,
                                     iteration |-> 0],
                                    idea_content),
                          [history |-> <<>>]),
       requests |-> IF api_key THEN 1 ELSE 0]

(***************************************************************************)
(* Bounds of the model and the answers of the remote API                   *)
(***************************************************************************)
\* iterate_idea calls, over all invocations of the iteration command
MaxCalls == 2

\* how far the clock advances between the two readings of generate_idea
Ticks == {0, 1}

\* the number of the write_text call that fails (0: none does)
WriteFaults == {0, 2}

PlainIdea ==
  [title |-> <<"L","e","d","g","e","r"," ","B","o","t">>,
   description |-> <<"B","o","o","k","k","e","e","p","i","n","g"," ","o","n"," ","a","u","t","o","p","i","l","o","t"," ","f","o","r"," ","f","r","e","e","l","a","n","c","e","r","s",".">>,
   category |-> <<"F","i","n","t","e","c","h">>,
   target_audience |-> <<"F","r","e","e","l","a","n","c","e","r","s">>,
   key_features |-> <<<<"B","a","n","k"," ","s","y","n","c">>, <<"I","n","v","o","i","c","e","s">>, <<"T","a","x"," ","e","x","p","o","r","t">>>>,
   monetization |-> <<"S","u","b","s","c","r","i","p","t","i","o","n">>,
   technical_approach |-> <<"S","e","r","v","e","r","l","e","s","s">>]

\* a reply that also carries the keys generate_idea sets itself, and names one
\* feature twice
OverridingIdea ==
  [id |-> 1, iteration |-> 2,
   history |-> <<[iteration |-> 1, timestamp |-> 0, description |-> <<"D","r","a","f","t">>]>>]
    @@ [PlainIdea EXCEPT !.title = <<"A","u","d","i","t"," ","T","r","a","i","l">>, !.category = <<"S","a","a","S"," ","&"," ","P","r","o","d","u","c","t","i","v","i","t","y">>,
                         !.key_features = <<<<"B","a","n","k"," ","s","y","n","c">>, <<"I","n","v","o","i","c","e","s">>, <<"B","a","n","k"," ","s","y","n","c">>>>]

\* a reply whose title is null
NullTitleIdea == [PlainIdea EXCEPT !.title = None]

RemoteIdeas == {OverridingIdea, NullTitleIdea}

RequestFailed == [ok |-> FALSE, error |-> <<"H","T","T","P"," ","E","r","r","o","r"," ","5","0","0",":"," ","I","n","t","e","r","n","a","l"," ","S","e","r","v","e","r"," ","E","r","r","o","r">>]

IdeaResponses == {RequestFailed} \cup {[ok |-> TRUE, data |-> d] : d \in RemoteIdeas}

FlaskApp ==
  [files |-> <<[path |-> <<"a","p","p",".","p","y">>, content |-> [text |-> <<"f","r","o","m"," ","f","l","a","s","k"," ","i","m","p","o","r","t"," ","F","l","a","s","k">>]],
               [path |-> <<"t","e","m","p","l","a","t","e","s","/","i","n","d","e","x",".","h","t","m","l">>, content |-> [text |-> <<"<","h","1",">","M","V","P","<","/","h","1",">">>]]>>,
   entry_point |-> <<"a","p","p",".","p","y">>,
   description |-> <<"F","l","a","s","k"," ","M","V","P">>,
   next_steps |-> <<<<"A","d","d"," ","l","o","g","i","n">>>>]

\* a reply whose paths leave the project directory, and that names no entry point
EscapingApp ==
  [files |-> <<[path |-> <<".",".","/","R","E","A","D","M","E",".","m","d">>, content |-> [text |-> <<"#"," ","P","r","o","j","e","c","t","s">>]],
               [path |-> <<"/","t","m","p","/","s","e","t","u","p",".","p","y">>, content |-> [text |-> <<"i","m","p","o","r","t"," ","o","s">>]]>>,
   description |-> <<"S","e","t","u","p"," ","s","c","r","i","p","t">>,
   next_steps |-> <<<<"R","u","n"," ","i","t">>>>]

RemoteCode == {FlaskApp, EscapingApp}

CodeResponses == {RequestFailed} \cup {[ok |-> TRUE, data |-> d] : d \in RemoteCode}

(***************************************************************************)
(* The state: the state document, the projects directory, the clock, and   *)
(* the running iteration command                                           *)
(***************************************************************************)
VARIABLES
  state_file,    \* <<>> when data/ideas.json is absent, else <<the document>>
  fs,            \* dirs: the directories, files: path -> content and mode
  now,           \* what datetime.now() reads
  pc,            \* "idle", or "iterating" inside the loop of iterate.py's main
  state,         \* iterate.py main: the loaded state
  idx,           \* iterate.py main: the position of the next idea
  api_key,       \* iterate.py main: whether OPENAI_API_KEY is set
  calls,         \* iterate_idea calls so far, those of the current run included
  last,          \* the most recent call: its inputs and what it returned
  pure           \* the most recent call of a function on its own: arguments and value

vars == <<state_file, fs, now, pc, state, idx, api_key, calls, last, pure>>

DATA_DIR == ROOT_DIR \o <<<<"d","a","t","a">>>>

Init ==
  /\ state_file = <<>>
  /\ fs = [dirs |-> {ROOT_DIR}, files |-> <<>>]
  /\ now = 1
  /\ pc = "idle"
  /\ state = <<>>
  /\ idx = 0
  /\ api_key = FALSE
  /\ calls = 0
  /\ last = [op |-> "none"]
  /\ pure = [op |-> "none"]

\* generate.py load_state: the document, or a fresh state when there is none
generate_load_state(file, clock) ==
  IF file # <<>> THEN file[1]
  ELSE [ideas |-> <<>>, metadata |-> [created |-> clock, total_runs |-> 0]]

\* save_state: the document written
save_state(doc) == <<doc>>

\* the keys of the new idea generate.py's main prints after saving, in order
PRINTED_KEYS ==
  <<"id", "title", "category", "description", "target_audience", "monetization",
    "key_features", "technical_approach">>

\* generate.py main counting only the runs the deterministic generator served
GenerateMainCountingFallbacks(key, responses, tick) ==
  /\ pc = "idle"
  /\ Len(generate_load_state(state_file, now).ideas) < MaxIdeas
  /\ LET loaded == generate_load_state(state_file, now)
         gen == generate_idea(loaded, key, responses, now, now + tick)
         served == IF key /\ responses[1].ok THEN 0 ELSE 1
         metadata == ("total_runs" :> loaded.metadata.total_runs + served)
                       @@ ("last_generate" :> now + tick) @@ loaded.metadata
     IN  /\ state_file' = save_state([ideas |-> Append(loaded.ideas, gen.idea),
                                      metadata |-> metadata])
         /\ last' = [op |-> "generate", api_key |-> key, remote_ok |-> responses[1].ok,
                     requests |-> gen.requests,
                     exit_code |-> IF \A i \in DOMAIN PRINTED_KEYS :
                                        PRINTED_KEYS[i] \in DOMAIN gen.idea
                                   THEN 0 ELSE 1]
  /\ fs' = mkdir(fs, DATA_DIR)
  /\ now' = now + 2
  /\ UNCHANGED <<pc, state, idx, api_key, calls, pure>>

\* generate.py main
GenerateMain(key, responses, tick) ==
  /\ pc = "idle"
  /\ Len(generate_load_state(state_file, now).ideas) < MaxIdeas
  /\ LET loaded == generate_load_state(state_file, now)
         gen == generate_idea(loaded, key, responses, now, now + tick)
         metadata == ("total_runs" :> loaded.metadata.total_runs + 1)
                       @@ ("last_generate" :> now + tick) @@ loaded.metadata
     IN  /\ state_file' = save_state([ideas |-> Append(loaded.ideas, gen.idea),
                                      metadata |-> metadata])
         /\ last' = [op |-> "generate", api_key |-> key, remote_ok |-> responses[1].ok,
                     requests |-> gen.requests,
                     exit_code |-> IF \A i \in DOMAIN PRINTED_KEYS :
                                        PRINTED_KEYS[i] \in DOMAIN gen.idea
                                   THEN 0 ELSE 1]
  /\ fs' = mkdir(fs, DATA_DIR)
  /\ now' = now + 2
  /\ UNCHANGED <<pc, state, idx, api_key, calls, pure>>

\* iterate.py main with the load_state of generate.py: a fresh state when the
\* document is absent
IterateStartWithFreshState(key) ==
  /\ pc = "idle"
  /\ UNCHANGED <<state_file, now, calls, pure>>
  /\ IF state_file = <<>> \/ state_file[1].ideas = <<>>
     THEN /\ last' = [op |-> "iterate", exit_code |-> 0, saved |-> FALSE]
          /\ UNCHANGED <<fs, pc, state, idx, api_key>>
     ELSE /\ calls + Len(state_file[1].ideas) <= MaxCalls
          /\ pc' = "iterating"
          /\ state' = state_file[1]
          /\ idx' = 1
          /\ api_key' = key
          /\ fs' = mkdir(fs, PROJECTS_DIR)
          /\ last' = [op |-> "load_state"]

\* iterate.py main without its check for an empty ideas list
IterateStartWithoutEmptyCheck(key) ==
  /\ pc = "idle"
  /\ UNCHANGED <<state_file, now, calls, pure>>
  /\ IF state_file = <<>>
     THEN /\ last' = [op |-> "iterate", exit_code |-> 1, saved |-> FALSE]
          /\ UNCHANGED <<fs, pc, state, idx, api_key>>
     ELSE /\ calls + Len(state_file[1].ideas) <= MaxCalls
          /\ pc' = "iterating"
          /\ state' = state_file[1]
          /\ idx' = 1
          /\ api_key' = key
          /\ fs' = mkdir(fs, PROJECTS_DIR)
          /\ last' = [op |-> "load_state"]

\* iterate.py main up to the loop: load_state, the empty check, the projects directory
IterateStart(key) ==
  /\ pc = "idle"
  /\ UNCHANGED <<state_file, now, calls, pure>>
  /\ IF state_file = <<>>
     THEN /\ last' = [op |-> "iterate", exit_code |-> 1, saved |-> FALSE]
          /\ UNCHANGED <<fs, pc, state, idx, api_key>>
     ELSE IF state_file[1].ideas = <<>>
     THEN /\ last' = [op |-> "iterate", exit_code |-> 0, saved |-> FALSE]
          /\ UNCHANGED <<fs, pc, state, idx, api_key>>
     ELSE /\ calls + Len(state_file[1].ideas) <= MaxCalls
          /\ pc' = "iterating"
          /\ state' = state_file[1]
          /\ idx' = 1
          /\ api_key' = key
          /\ fs' = mkdir(fs, PROJECTS_DIR)
          /\ last' = [op |-> "load_state"]

\* the keys of the idea the loop of iterate.py's main prints before the call
LOOP_KEYS == <<"title", "category", "iteration">>

\* one pass of the loop of iterate.py's main: the prints, then iterate_idea on
\* the next idea; an exception ends the process before save_state
IterateStep(env) ==
  /\ pc = "iterating"
  /\ idx <= Len(state.ideas)
  /\ LET idea == state.ideas[idx]
         call == IF \E i \in DOMAIN LOOP_KEYS : LOOP_KEYS[i] \notin DOMAIN idea
                 THEN [raised |-> TRUE, idea |-> idea, fs |-> fs, result |-> <<>>]
                 ELSE iterate_idea(idea, api_key, fs, now, env)
     IN  /\ last' = [op |-> "iterate_idea", index |-> idx, api_key |-> api_key,
                     remote_ok |-> env.response.ok, scan_error |-> env.scan_error,
                     fault |-> env.fault, raised |-> call.raised,
                     result |-> call.result, exit_code |-> IF call.raised THEN 1 ELSE 0]
         /\ fs' = call.fs
         /\ IF call.raised
            THEN /\ pc' = "idle"
                 /\ state' = <<>>
                 /\ idx' = 0
                 /\ api_key' = FALSE
                 /\ UNCHANGED now
            ELSE /\ state' = [state EXCEPT !.ideas[idx] = call.idea]
                 /\ idx' = idx + 1
                 /\ now' = now + 1
                 /\ UNCHANGED <<pc, api_key>>
  /\ calls' = calls + 1
  /\ UNCHANGED <<state_file, pure>>

\* iterate.py main after the loop, counting the run in total_runs as well
IterateFinishCountingRuns ==
  /\ pc = "iterating"
  /\ idx > Len(state.ideas)
  /\ LET total == IF "total_iterations" \in DOMAIN state.metadata
                  THEN state.metadata.total_iterations ELSE 0
         metadata == ("last_iterate" :> now)
                       @@ ("total_iterations" :> total + Len(state.ideas))
                       @@ ("total_runs" :> state.metadata.total_runs + 1) @@ state.metadata
     IN  state_file' = save_state([state EXCEPT !.metadata = metadata])
  /\ last' = [op |-> "iterate", exit_code |-> 0, saved |-> TRUE]
  /\ pc' = "idle"
  /\ state' = <<>>
  /\ idx' = 0
  /\ api_key' = FALSE
  /\ now' = now + 1
  /\ UNCHANGED <<fs, calls, pure>>

\* iterate.py main after the loop: the metadata and save_state
IterateFinish ==
  /\ pc = "iterating"
  /\ idx > Len(state.ideas)
  /\ LET total == IF "total_iterations" \in DOMAIN state.metadata
                  THEN state.metadata.total_iterations ELSE 0
         metadata == ("last_iterate" :> now)
                       @@ ("total_iterations" :> total + Len(state.ideas)) @@ state.metadata
     IN  state_file' = save_state([state EXCEPT !.metadata = metadata])
  /\ last' = [op |-> "iterate", exit_code |-> 0, saved |-> TRUE]
  /\ pc' = "idle"
  /\ state' = <<>>
  /\ idx' = 0
  /\ api_key' = FALSE
  /\ now' = now + 1
  /\ UNCHANGED <<fs, calls, pure>>

NoResponse == [ok |-> FALSE, error |-> <<>>]

\* what the surroundings can do during the next iterate_idea call: the scan
\* fails or not, then the API's answer, then the write that fails; what the call
\* does not get to is left at its default
Envs ==
  IF pc # "iterating" \/ idx > Len(state.ideas) THEN {}
  ELSE IF get_project_dir_raises(state.ideas[idx])
  THEN {[scan_error |-> FALSE, response |-> NoResponse, fault |-> 0]}
  ELSE {[scan_error |-> TRUE, response |-> NoResponse, fault |-> 0]}
         \cup {[scan_error |-> FALSE, response |-> response, fault |-> fault] :
                 response \in (IF api_key THEN {r \in CodeResponses : r.ok} ELSE {NoResponse}),
                 fault \in WriteFaults}
         \cup {[scan_error |-> FALSE, response |-> response, fault |-> 0] :
                 response \in (IF api_key THEN {r \in CodeResponses : ~r.ok} ELSE {})}

Next ==
  \/ \E key \in BOOLEAN, tick \in Ticks :
       \E first \in (IF key THEN IdeaResponses ELSE {NoResponse}) :
         \E second \in (IF key /\ ~first.ok THEN {[ok |-> TRUE, data |-> PlainIdea]}
                                              ELSE {NoResponse}) :
           GenerateMain(key, <<first, second>>, tick)
  \/ \E key \in BOOLEAN : IterateStart(key)
  \/ \E env \in Envs : IterateStep(env)
  \/ IterateFinish

Spec == Init /\ [][Next]_vars

(***************************************************************************)
(* The two commands on a state document that holds no idea yet             *)
(***************************************************************************)
\* data/ideas.json as load_state of generate.py lays it out, with no idea
EmptyStateInit ==
  /\ state_file = save_state([ideas |-> <<>>, metadata |-> [created |-> 0, total_runs |-> 0]])
  /\ fs = [dirs |-> {ROOT_DIR, DATA_DIR}, files |-> <<>>]
  /\ now = 1
  /\ pc = "idle"
  /\ state = <<>>
  /\ idx = 0
  /\ api_key = FALSE
  /\ calls = 0
  /\ last = [op |-> "none"]
  /\ pure = [op |-> "none"]

EmptyStateSpec == EmptyStateInit /\ [][Next]_vars

(***************************************************************************)
(* The functions on their own: the arguments are drawn at the start, one   *)
(* step applies the function                                               *)
(***************************************************************************)
\* the option lists deterministic_choice is applied to: of none, one, two, three,
\* five and six entries
ChoiceOptions ==
  {<<>>, <<<<"O","n","l","y"," ","o","p","t","i","o","n">>>>, <<<<"F","i","r","s","t">>, <<"S","e","c","o","n","d">>>>, DEFAULT_FEATURES,
   SubSeq(audience_options, 1, 5), monetization_options}

\* the seeds generate_fallback_idea derives from the run counts 0..5
RunSeeds ==
  {"idea_gen_0", "idea_gen_1", "idea_gen_2", "idea_gen_3", "idea_gen_4", "idea_gen_5"}

\* a template naming the same placeholder twice
RepeatedTemplate ==
  <<[ph |-> TRUE, name |-> "industry", text |-> <<"{","i","n","d","u","s","t","r","y","}">>],
    [ph |-> FALSE, name |-> "", text |-> <<" ","t","o","o","l","s"," ","b","u","i","l","t"," ","b","y"," ">>],
    [ph |-> TRUE, name |-> "industry", text |-> <<"{","i","n","d","u","s","t","r","y","}">>],
    [ph |-> FALSE, name |-> "", text |-> <<" ","t","e","a","m","s">>]>>

\* a template naming a placeholder the registry has no entry for
UnknownTemplate ==
  <<[ph |-> FALSE, name |-> "", text |-> <<"A"," ">>],
    [ph |-> TRUE, name |-> "mystery", text |-> <<"{","m","y","s","t","e","r","y","}">>],
    [ph |-> FALSE, name |-> "", text |-> <<" ","f","o","r"," ">>],
    [ph |-> TRUE, name |-> "industry", text |-> <<"{","i","n","d","u","s","t","r","y","}">>],
    [ph |-> FALSE, name |-> "", text |-> <<" ","t","e","a","m","s">>]>>

\* the templates of the registry and the two above
Templates ==
  UNION {Chars(IDEA_TEMPLATES[c].templates) : c \in DOMAIN IDEA_TEMPLATES}
    \cup {RepeatedTemplate, UnknownTemplate}

\* the feature pools: every category's, the default one, and pools too small
\* to give three features
FeaturePools ==
  {feature_templates[category] : category \in DOMAIN feature_templates}
    \cup {DEFAULT_FEATURES, <<<<"O","n","l","y"," ","f","e","a","t","u","r","e">>>>, <<<<"F","i","r","s","t"," ","f","e","a","t","u","r","e">>, <<"S","e","c","o","n","d"," ","f","e","a","t","u","r","e">>>>}

\* the project directory scan_existing_project is applied to
ScannedDir == PROJECTS_DIR \o <<<<"i","d","e","a","-","1","-","l","e","d","g","e","r","-","b","o","t">>>>

\* a file system holding the directories above ScannedDir and the given files
\* with their directories
FileSystem(paths) ==
  [dirs |-> {ROOT_DIR, PROJECTS_DIR}
              \cup UNION {{SubSeq(p, 1, k) : k \in 1..(Len(p) - 1)} : p \in paths},
   files |-> [p \in paths |-> [content |-> [text |-> <<"x">>], executable |-> FALSE]]]

\* the project directory absent, empty, holding only files under .git and
\* __pycache__, holding a project, a project with .gitignore, and a project with
\* a file under .github
ScannedFileSystems ==
  {FileSystem({}),
   [FileSystem({}) EXCEPT !.dirs = @ \cup {ScannedDir}],
   FileSystem({ScannedDir \o <<<<".","g","i","t">>, <<"c","o","n","f","i","g">>>>,
               ScannedDir \o <<<<"_","_","p","y","c","a","c","h","e","_","_">>, <<"m","a","i","n",".","c","p","y","t","h","o","n","-","3","1","1",".","p","y","c">>>>}),
   FileSystem({ScannedDir \o <<<<"m","a","i","n",".","p","y">>>>, ScannedDir \o <<<<"R","E","A","D","M","E",".","m","d">>>>}),
   FileSystem({ScannedDir \o <<<<"m","a","i","n",".","p","y">>>>, ScannedDir \o <<<<".","g","i","t","i","g","n","o","r","e">>>>}),
   FileSystem({ScannedDir \o <<<<"m","a","i","n",".","p","y">>>>,
               ScannedDir \o <<<<".","g","i","t","h","u","b">>, <<"w","o","r","k","f","l","o","w","s">>, <<"c","i",".","y","m","l">>>>,
               ScannedDir \o <<<<".","g","i","t">>, <<"H","E","A","D">>>>})}

\* a description of more than ten words after its article
LongDescription ==
  <<"A","n"," ","o","p","e","n"," ","p","l","a","t","f","o","r","m"," ","t","h","a","t"," ","c","o","n","n","e","c","t","s"," ","v","e","r","i","f","i","e","d"," ","b","u","y","e","r","s"," ","w","i","t","h"," ","t","r","u","s","t","e","d"," ","s","e","l","l","e","r","s"," ","o","f"," ","r","a","r","e"," ","v","i","n","t","a","g","e"," ","s","y","n","t","h","e","s","i","z","e","r","s"," ","a","n","d"," ","p","a","r","t","s"," ","w","o","r","l","d","w","i","d","e">>

\* the descriptions of the run counts 0..5 and descriptions with and without a
\* leading article, with punctuation, capitals, digits, a tab and a newline, of
\* no word, one word and more than ten words
Descriptions ==
  {generate_fallback_idea(run_count).description : run_count \in 0..5}
    \cup {LongDescription,
          <<"A"," ","p","l","a","t","f","o","r","m"," ","t","h","a","t"," ","o","p","t","i","m","i","z","e","s"," ","p","e","r","f","o","r","m","a","n","c","e"," ","f","o","r"," ","e","n","t","e","r","p","r","i","s","e"," ","t","e","a","m","s">>,
          <<"T","h","e"," ","q","u","i","c","k"," ","t","o","o","l">>,
          <<"a","n"," ","A","P","I","-","f","i","r","s","t"," ","p","l","a","t","f","o","r","m"," ","(","b","e","t","a",")",","," ","b","u","i","l","t"," ","f","o","r"," ","S","M","B","s",":"," ","f","a","s","t",";"," ","s","i","m","p","l","e",".">>,
          <<"B","u","i","l","d"," ","a","n","d"," ","d","e","p","l","o","y"," ","m","a","c","h","i","n","e"," ","l","e","a","r","n","i","n","g"," ","m","o","d","e","l","s"," ","t","h","a","t"," ","s","c","a","l","e"," ","a","c","r","o","s","s"," ","e","v","e","r","y"," ","c","l","o","u","d"," ","r","e","g","i","o","n"," ","i","n"," ","t","h","e"," ","w","o","r","l","d"," ","t","o","d","a","y">>,
          <<"f","o","r"," ","t","e","a","m","s"," ","i","n"," ","t","h","e"," ","c","l","o","u","d">>,
          <<"T","H","E"," ","B","e","s","t"," ","O","F"," ","T","H","E"," ","W","E","B">>,
          <<"t","h","e"," ","t","h","e"," ","e","n","d">>,
          <<"3","d"," ","p","r","i","n","t","i","n","g"," ","f","o","r"," ","t","h","e"," ","m","a","s","s","e","s">>,
          <<"("," ",")"," ",","," ","t","o","o","l","s">>,
          <<"A">> \o <<"\t">> \o <<"t","o","o","l">> \o <<"\n">> \o <<"f","o","r"," "," ","d","e","v","s"," ">>,
          <<"A">>,
          <<" "," "," ">>,
          <<>>}

\* a title with a hyphen, a double space and punctuation
HyphenTitle == <<"A","I","-","p","o","w","e","r","e","d"," "," ","T","o","o","l",":"," ","v","2","!">>

\* the titles of the run counts 0..5 and titles with hyphens, punctuation,
\* padding, a tab and a newline, of more than 50 characters, and with nothing to
\* keep
Titles ==
  {generate_fallback_idea(run_count).title : run_count \in 0..5}
    \cup {HyphenTitle,
          <<"L","e","d","g","e","r"," ","B","o","t">>,
          <<"C","o","s","t"," ","&"," ","U","s","a","g","e"," ","T","r","a","c","k","e","r">>,
          <<" "," ","P","a","d","d","e","d"," "," "," ","T","i","t","l","e"," "," ">>,
          <<"a"," ","-"," ","b">>,
          <<"-">>,
          <<"_","_","i","n","i","t","_","_">>,
          <<"T","a","b","s">> \o <<"\t">> \o <<"a","n","d">> \o <<"\n">> \o <<"n","e","w","l","i","n","e","s">>,
          <<"A","n"," ","E","x","t","r","a","o","r","d","i","n","a","r","i","l","y"," ","L","o","n","g"," ","T","i","t","l","e"," ","T","h","a","t"," ","G","o","e","s"," ","O","n"," ","W","e","l","l"," ","P","a","s","t"," ","F","i","f","t","y"," ","C","h","a","r","a","c","t","e","r","s">>,
          <<"!","!","!">>,
          <<" "," "," ">>,
          <<>>}

\* ideas as get_project_dir reads them: ids of one and two digits, one a prefix
\* of another, and titles whose slugs are equal, empty, or begin with a digit or
\* a hyphen
DirectoryIdeas ==
  {[id |-> id, title |-> title] :
     id \in {1, 2, 11, 12, 21},
     title \in {<<"F","a","s","t">>, <<"f","a","s","t","!">>, <<"2"," ","F","a","s","t">>, <<"1"," ","F","a","s","t">>, <<"1","-","2"," ","F","a","s","t">>, <<"-","2"," ","F","a","s","t">>,
                <<>>}}

PureInit ==
  /\ state_file = <<>>
  /\ fs = [dirs |-> {ROOT_DIR}, files |-> <<>>]
  /\ now = 1
  /\ pc = "idle"
  /\ state = <<>>
  /\ idx = 0
  /\ api_key = FALSE
  /\ calls = 0
  /\ last = [op |-> "none"]
  /\ \/ pure \in {[op |-> "call", fn |-> "deterministic_choice", seed |-> seed,
                    options |-> options] :
                     seed \in SHA256Seeds, options \in ChoiceOptions}
     \/ pure \in {[op |-> "call", fn |-> "fill_template", seed |-> seed,
                    template |-> template] :
                     seed \in RunSeeds, template \in Templates}
     \/ pure \in {[op |-> "call", fn |-> "derive_title", description |-> description] :
                     description \in Descriptions}
     \/ pure \in {[op |-> "call", fn |-> "get_project_dir", idea |-> idea, other |-> other] :
                     idea \in DirectoryIdeas, other \in DirectoryIdeas}
     \/ pure \in {[op |-> "call", fn |-> "sanitize_project_name", title |-> title] :
                     title \in Titles}
     \/ pure \in {[op |-> "call", fn |-> "scan_existing_project",
                    project_dir |-> ScannedDir, fsys |-> fsys] :
                     fsys \in ScannedFileSystems}
     \/ pure \in {[op |-> "call", fn |-> "select_features", seed |-> seed,
                    base_features |-> base_features] :
                     seed \in RunSeeds, base_features \in FeaturePools}

\* deterministic_choice(seed, options)
ChoiceCall ==
  /\ pure.op = "call"
  /\ pure.fn = "deterministic_choice"
  /\ LET call == deterministic_choice_call(pure.seed, pure.options)
     IN  pure' = [op |-> "return", fn |-> pure.fn, seed |-> pure.seed,
                  options |-> pure.options, raised |-> call.raised, value |-> call.value]
  /\ UNCHANGED <<state_file, fs, now, pc, state, idx, api_key, calls, last>>

\* the placeholder loop of generate_fallback_idea on a template
FillCall ==
  /\ pure.op = "call"
  /\ pure.fn = "fill_template"
  /\ pure' = [op |-> "return", fn |-> pure.fn, seed |-> pure.seed,
              template |-> pure.template,
              value |-> fill_template(pure.template, pure.seed, IDEA_VARIABLES)]
  /\ UNCHANGED <<state_file, fs, now, pc, state, idx, api_key, calls, last>>

\* the feature loop of generate_fallback_idea on a pool
FeaturesCall ==
  /\ pure.op = "call"
  /\ pure.fn = "select_features"
  /\ LET loop == select_features(<<>>, 0, pure.seed, pure.base_features)
     IN  pure' = [op |-> "return", fn |-> pure.fn, seed |-> pure.seed,
                  base_features |-> pure.base_features,
                  value |-> loop.features, attempts |-> loop.i]
  /\ UNCHANGED <<state_file, fs, now, pc, state, idx, api_key, calls, last>>

\* scan_existing_project(project_dir)
ScanCall ==
  /\ pure.op = "call"
  /\ pure.fn = "scan_existing_project"
  /\ pure' = [op |-> "return", fn |-> pure.fn, project_dir |-> pure.project_dir,
              fsys |-> pure.fsys,
              value |-> scan_existing_project(pure.project_dir, pure.fsys)]
  /\ UNCHANGED <<state_file, fs, now, pc, state, idx, api_key, calls, last>>

\* the title derivation of generate_fallback_idea on a description
TitleCall ==
  /\ pure.op = "call"
  /\ pure.fn = "derive_title"
  /\ pure' = [op |-> "return", fn |-> pure.fn, description |-> pure.description,
              value |-> derive_title(pure.description)]
  /\ UNCHANGED <<state_file, fs, now, pc, state, idx, api_key, calls, last>>

\* sanitize_project_name(title)
SanitizeCall ==
  /\ pure.op = "call"
  /\ pure.fn = "sanitize_project_name"
  /\ pure' = [op |-> "return", fn |-> pure.fn, title |-> pure.title,
              value |-> sanitize_project_name(pure.title)]
  /\ UNCHANGED <<state_file, fs, now, pc, state, idx, api_key, calls, last>>

\* get_project_dir on two ideas
DirectoryCall ==
  /\ pure.op = "call"
  /\ pure.fn = "get_project_dir"
  /\ pure' = [op |-> "return", fn |-> pure.fn, idea |-> pure.idea, other |-> pure.other,
              value |-> get_project_dir(pure.idea),
              other_value |-> get_project_dir(pure.other)]
  /\ UNCHANGED <<state_file, fs, now, pc, state, idx, api_key, calls, last>>

PureNext ==
  \/ DirectoryCall
  \/ ChoiceCall
  \/ FillCall
  \/ FeaturesCall
  \/ ScanCall
  \/ TitleCall
  \/ SanitizeCall

PureSpec == PureInit /\ [][PureNext]_vars

(***************************************************************************)
(* The claims                                                              *)
(***************************************************************************)
\* the ideas of data/ideas.json
saved_ideas == IF state_file = <<>> THEN <<>> ELSE state_file[1].ideas

\* the ideas the running iteration command holds in memory
loaded_ideas == IF pc = "iterating" THEN state.ideas ELSE <<>>

\* the keys generate_idea sets itself
WRAPPER_KEYS == {"id", "created_at", "updated_at", "iteration", "history"}

\* C1: every idea generate_idea created has, after any sequence of iterate_idea
\* calls, a history as long as its iteration counter
C1_HistoryLengthIsIteration ==
  /\ \A i \in DOMAIN saved_ideas :
       Len(saved_ideas[i].history) = saved_ideas[i].iteration
  /\ \A i \in DOMAIN loaded_ideas :
       Len(loaded_ideas[i].history) = loaded_ideas[i].iteration

\* C2: the history entry a successful iterate_idea call appends records the
\* iteration number the idea had before the call (0 for the first iteration of
\* a fresh idea, k for its k-th entry counted from 0)
C2_EntryRecordsIterationBefore ==
  [][(/\ pc = "iterating"
      /\ calls' = calls + 1
      /\ pc' = "iterating"
      /\ "error" \notin DOMAIN last'.result)
     => LET before == state.ideas[idx]
            after == state'.ideas[idx]
        IN  /\ Len(after.history) = Len(before.history) + 1
            /\ after.history[Len(after.history)].iteration = before.iteration]_vars

\* C3: when code generation or file writing raises inside iterate_idea (the
\* request fails, or a write_text fails), the iteration grows by exactly 1,
\* updated_at is the current time, exactly one history entry is appended, flagged
\* error and carrying the failure's text, and the call returns an error result
\* instead of raising
C3_FailureIsRecorded ==
  [][(/\ pc = "iterating"
      /\ calls' = calls + 1
      /\ \A i \in DOMAIN LOOP_KEYS : LOOP_KEYS[i] \in DOMAIN state.ideas[idx]
      /\ ~get_project_dir_raises(state.ideas[idx])
      /\ ~last'.scan_error
      /\ (last'.api_key /\ ~last'.remote_ok) \/ last'.fault # 0)
     => /\ ~last'.raised
        /\ pc' = "iterating"
        /\ LET before == state.ideas[idx]
               after == state'.ideas[idx]
               entry == after.history[Len(after.history)]
               text == IF last'.api_key /\ ~last'.remote_ok
                       THEN RequestFailed.error ELSE OSErrorText
           IN  /\ after.iteration = before.iteration + 1
               /\ after.updated_at = now
               /\ after.history = Append(before.history, entry)
               /\ "error" \in DOMAIN entry
               /\ entry.error = TRUE
               /\ entry.description = <<"C","o","d","e"," ","g","e","n","e","r","a","t","i","o","n"," ","f","a","i","l","e","d",":"," ">> \o text
               /\ last'.result = [error |-> text]]_vars

\* a write_text failed during a call whose code generation had succeeded, and
\* the call returned its error
C3_Witness ==
  /\ pc = "iterating"
  /\ last.op = "iterate_idea"
  /\ last.fault # 0
  /\ last.api_key => last.remote_ok
  /\ "error" \in DOMAIN last.result
  /\ state.ideas[last.index].iteration = 1

\* C4: no failure while one idea is processed aborts the batch: a run leaves its
\* loop only after the last idea, and then saves the ideas it processed
C4_BatchNeverAborts ==
  [][(pc = "iterating" /\ pc' = "idle")
     => /\ idx > Len(state.ideas)
        /\ saved_ideas' = state.ideas]_vars

\* C5: whatever the outcome of an iterate_idea call on idea i, every sibling
\* j # i keeps the fields the batch has given it: in memory while the batch goes
\* on, in the saved state once it has ended
C5_SiblingsUnaffected ==
  [][(pc = "iterating" /\ calls' = calls + 1)
     => \A j \in DOMAIN state.ideas :
          j # idx => IF pc' = "iterating" THEN state'.ideas[j] = state.ideas[j]
                     ELSE saved_ideas'[j] = state.ideas[j]]_vars

\* C6: with an API key, a failed code-generation request is replaced by the
\* template path: the call returns the template's files and records a success
\* (project_path set, a history entry with a file count and no error flag)
C6_RemoteFailureFallsBack ==
  (/\ pc = "iterating"
   /\ last.op = "iterate_idea"
   /\ last.api_key
   /\ ~last.remote_ok
   /\ last.fault = 0)
  => LET idea == state.ideas[last.index]
         entry == idea.history[Len(idea.history)]
     IN  /\ "files" \in DOMAIN last.result
         /\ "project_path" \in DOMAIN idea
         /\ "files_created" \in DOMAIN entry
         /\ "error" \notin DOMAIN entry

\* C7: with an API key, generate_idea makes exactly one request; when it fails
\* the idea's content is generate_fallback_idea(metadata.total_runs), the
\* content of a run without a key, and the command ends normally
C7_SingleAttemptThenFallback ==
  (last.op = "generate" /\ last.api_key /\ ~last.remote_ok)
  => LET idea == saved_ideas[Len(saved_ideas)]
         content == generate_fallback_idea(state_file[1].metadata.total_runs - 1)
     IN  /\ last.requests = 1
         /\ DOMAIN idea = DOMAIN content \cup WRAPPER_KEYS
         /\ \A key \in DOMAIN content : idea[key] = content[key]
         /\ last.exit_code = 0

\* the second generation ran with a key and its request failed
C7_Witness ==
  /\ last.op = "generate"
  /\ last.api_key
  /\ ~last.remote_ok
  /\ Len(saved_ideas) = 2
  /\ saved_ideas[2].title = fallback_ideas[1].title

\* C8: whatever the content, the idea generate_idea returns has
\* id = len(state.ideas) + 1, iteration = 0 and history = []
C8_WrapperValuesWin ==
  last.op = "generate"
  => LET idea == saved_ideas[Len(saved_ideas)]
     IN  /\ idea.id = Len(saved_ideas)
         /\ idea.iteration = 0
         /\ idea.history = <<>>

\* C9: in every reachable state the ids are pairwise distinct and the idea at
\* position p (from 1) has id p
C9_IdIsPosition ==
  /\ \A p \in DOMAIN saved_ideas : saved_ideas[p].id = p
  /\ \A p, q \in DOMAIN saved_ideas : p # q => saved_ideas[p].id # saved_ideas[q].id

\* C10: an idea's iteration starts at 0, every iterate_idea call that returns
\* increases it by exactly 1 (also when the project directory exists already),
\* and the saved iteration never decreases nor returns to 0
C10_IterationCountsUp ==
  [][/\ Len(saved_ideas') = Len(saved_ideas) + 1
          => saved_ideas'[Len(saved_ideas')].iteration = 0
     /\ (pc = "iterating" /\ calls' = calls + 1 /\ pc' = "iterating")
          => state'.ideas[idx].iteration = state.ideas[idx].iteration + 1
     /\ \A i \in DOMAIN saved_ideas :
          /\ saved_ideas'[i].iteration >= saved_ideas[i].iteration
          /\ saved_ideas[i].iteration > 0 => saved_ideas'[i].iteration # 0]_vars

\* metadata.total_iterations of data/ideas.json, 0 while there is none
saved_total_iterations ==
  IF state_file = <<>> \/ "total_iterations" \notin DOMAIN state_file[1].metadata THEN 0
  ELSE state_file[1].metadata.total_iterations

\* metadata.total_runs of data/ideas.json, 0 while there is no document
saved_total_runs == IF state_file = <<>> THEN 0 ELSE state_file[1].metadata.total_runs

RECURSIVE Sum(_)
\* the sum of a sequence of integers
Sum(numbers) == IF numbers = <<>> THEN 0 ELSE Head(numbers) + Sum(Tail(numbers))

\* C11: every iterate_idea call appends exactly one entry at the end of the
\* idea's history and leaves the earlier entries as they were: the history
\* before the call is a prefix of the history after it, one entry shorter
C11_HistoryAppendOnly ==
  [][(pc = "iterating" /\ calls' = calls + 1)
     => /\ pc' = "iterating"
        /\ LET before == state.ideas[idx].history
               after == state'.ideas[idx].history
           IN  /\ Len(after) = Len(before) + 1
               /\ SubSeq(after, 1, Len(before)) = before]_vars

\* C12: every invocation of the generate command adds exactly 1 to
\* metadata.total_runs and appends exactly one idea to the end of the ideas
\* list, whatever the number of ideas and whichever path made the content
C12_OneRunOneIdea ==
  [][last'.op = "generate"
     => /\ saved_total_runs' = saved_total_runs + 1
        /\ Len(saved_ideas') = Len(saved_ideas) + 1
        /\ SubSeq(saved_ideas', 1, Len(saved_ideas)) = saved_ideas]_vars

\* a generation served by the remote API, with an idea there already
C12_Witness ==
  /\ last.op = "generate"
  /\ last.api_key
  /\ last.remote_ok
  /\ Len(saved_ideas) = 2
  /\ saved_total_runs = 2

\* C13: every iteration run adds to metadata.total_iterations (0 when absent)
\* exactly the number of ideas the run processed, and total_iterations always
\* moves by the sum of what the ideas' iteration counters gain
C13_TotalIterationsCountsIdeas ==
  [][/\ saved_total_iterations' - saved_total_iterations
          = Sum([i \in DOMAIN saved_ideas |->
                   saved_ideas'[i].iteration - saved_ideas[i].iteration])
     /\ (pc = "iterating" /\ pc' = "idle")
          => saved_total_iterations' - saved_total_iterations = idx - 1]_vars

\* C14: with no state document the iteration command exits non-zero before any
\* mutation: no document is created, no directory or file is written
C14_AbsentStateExits ==
  [][(pc = "idle" /\ state_file = <<>> /\ last'.op = "iterate")
     => /\ last'.exit_code # 0
        /\ pc' = "idle"
        /\ UNCHANGED <<state_file, fs>>]_vars

\* the iteration command has run and exited on a repository with no state
\* document, which is as it was
C14_Witness ==
  /\ last.op = "iterate"
  /\ last.exit_code = 1
  /\ state_file = <<>>
  /\ fs = [dirs |-> {ROOT_DIR}, files |-> <<>>]

\* C15: a successful iterate_idea call (the code is generated and every write
\* goes through) advances iteration by 1, sets updated_at to the current time
\* and project_path to the idea's project directory, and appends one history
\* entry whose files_created is the number of files of the generated list and
\* whose next_steps are those of the generated result
C15_SuccessIsRecorded ==
  [][(/\ pc = "iterating"
      /\ calls' = calls + 1
      /\ ~get_project_dir_raises(state.ideas[idx])
      /\ ~last'.scan_error
      /\ last'.api_key => last'.remote_ok
      /\ last'.fault = 0)
     => /\ pc' = "iterating"
        /\ "files" \in DOMAIN last'.result
        /\ LET before == state.ideas[idx]
               after == state'.ideas[idx]
               entry == after.history[Len(after.history)]
           IN  /\ after.iteration = before.iteration + 1
               /\ after.updated_at = now
               /\ "project_path" \in DOMAIN after
               /\ after.project_path = <<"p","r","o","j","e","c","t","s","/","i","d","e","a","-">> \o str_int(before.id) \o <<"-">>
                                         \o sanitize_project_name(before.title)
               /\ after.history = Append(before.history, entry)
               /\ entry.files_created = Len(last'.result.files)
               /\ entry.next_steps = last'.result.next_steps]_vars

\* a call with a key has succeeded with the two files of the remote reply
C15_Witness ==
  /\ pc = "iterating"
  /\ last.op = "iterate_idea"
  /\ last.api_key
  /\ last.remote_ok
  /\ last.fault = 0
  /\ "files" \in DOMAIN last.result
  /\ LET idea == state.ideas[last.index]
     IN  idea.history[Len(idea.history)].files_created = 2

\* C16: every file an iterate_idea call writes or changes lies inside the
\* project directory of its idea, whatever file list the remote or the
\* deterministic path gave
C16_WritesStayInside ==
  [][(pc = "iterating" /\ calls' = calls + 1)
     => \A p \in DOMAIN fs'.files :
          (p \notin DOMAIN fs.files \/ fs'.files[p] # fs.files[p])
            => IsUnder(p, get_project_dir(state.ideas[idx]))]_vars

\* C17: no step deletes a file, and a successful iterate_idea call gives every
\* file whose path is in the new output the new content and leaves every other
\* file, in the project directory or not, as it was
C17_OverwriteOnly ==
  [][/\ \A p \in DOMAIN fs.files : p \in DOMAIN fs'.files
     /\ (/\ pc = "iterating"
         /\ calls' = calls + 1
         /\ pc' = "iterating"
         /\ "files" \in DOMAIN last'.result)
        => LET dir == get_project_dir(state.ideas[idx])
               files == last'.result.files
               at(k) == resolve(path_join(dir, files[k].path))
               output == {at(k) : k \in DOMAIN files}
                           \cup {dir \o <<<<".","r","e","p","l","i","t">>>>, dir \o <<<<"r","e","p","l","i","t",".","n","i","x">>>>}
           IN  /\ \A k \in DOMAIN files : fs'.files[at(k)].content = files[k].content
               /\ \A p \in DOMAIN fs.files \ output : fs'.files[p] = fs.files[p]]_vars

\* a second run has written the remote reply's app.py into a project directory
\* that still holds the README.md of the first run's template
C17_Witness ==
  /\ pc = "iterating"
  /\ last.op = "iterate_idea"
  /\ "files" \in DOMAIN last.result
  /\ ~get_project_dir_raises(state.ideas[last.index])
  /\ LET dir == get_project_dir(state.ideas[last.index])
     IN  /\ dir \o <<<<"a","p","p",".","p","y">>>> \in DOMAIN fs.files
         /\ dir \o <<<<"R","E","A","D","M","E",".","m","d">>>> \in DOMAIN fs.files
         /\ "template" \in DOMAIN fs.files[dir \o <<<<"R","E","A","D","M","E",".","m","d">>>>].content
         /\ state.ideas[last.index].iteration = 2

RECURSIVE PowerMod(_, _, _)
\* base^exponent % n
PowerMod(base, exponent, n) ==
  IF exponent = 0 THEN 1 % n ELSE (base * PowerMod(base, exponent - 1, n)) % n

\* int(hexdigest, 16) % n as the sum of the sixteen words, each times its weight
DigestResidue(seed, n) ==
  LET words == sha256(seed)
  IN  Sum([i \in DOMAIN words |->
             ((words[i] % n) * PowerMod(65536 % n, Len(words) - i, n)) % n]) % n

\* C18: for every seed and every non-empty option list deterministic_choice
\* returns options[digest(seed) mod len(options)] (counted from 0): an element
\* of the list, and the only element of a list of one
C18_ChoiceIsDigestModLength ==
  (pure.op = "return" /\ pure.fn = "deterministic_choice" /\ pure.options # <<>>)
  => /\ \E i \in DOMAIN pure.options : pure.options[i] = pure.value
     /\ Len(pure.options) = 1 => pure.value = pure.options[1]
     /\ pure.value = pure.options[DigestResidue(pure.seed, Len(pure.options)) + 1]

\* a choice among the six monetization options that is not the first one
C18_Witness ==
  /\ pure.op = "return"
  /\ pure.fn = "deterministic_choice"
  /\ pure.options = monetization_options
  /\ pure.value # monetization_options[1]

\* C20: in every reachable state no idea's key_features holds the same entry
\* twice
C20_FeaturesDistinct ==
  /\ \A i \in DOMAIN saved_ideas :
       \A j, k \in DOMAIN saved_ideas[i].key_features :
         j # k => saved_ideas[i].key_features[j] # saved_ideas[i].key_features[k]
  /\ \A i \in DOMAIN loaded_ideas :
       \A j, k \in DOMAIN loaded_ideas[i].key_features :
         j # k => loaded_ideas[i].key_features[j] # loaded_ideas[i].key_features[k]

\* the characters \w matches
WORD_CHARS == ALNUM \cup {"_"}

\* re.search(r'\{(\w+)\}', text) finds a match
HasToken(text) ==
  \E i, j \in DOMAIN text :
    /\ i + 1 < j
    /\ text[i] = "{"
    /\ text[j] = "}"
    /\ \A k \in (i + 1)..(j - 1) : text[k] \in WORD_CHARS

\* C21: filling a template all of whose placeholder names are in the registry
\* returns a text with no {name} token left, also when a name occurs twice
C21_NoTokenLeft ==
  (/\ pure.op = "return"
   /\ pure.fn = "fill_template"
   /\ \A k \in DOMAIN pure.template :
        pure.template[k].ph => pure.template[k].name \in DOMAIN IDEA_VARIABLES)
  => ~HasToken(pure.value)

\* the template naming {industry} twice is filled with two different industries
C21_Witness ==
  /\ pure.op = "return"
  /\ pure.fn = "fill_template"
  /\ pure.template = RepeatedTemplate
  /\ ~HasToken(pure.value)
  /\ \E a, b \in Chars(IDEA_VARIABLES["industry"]) :
       a # b /\ pure.value = a \o <<" ","t","o","o","l","s"," ","b","u","i","l","t"," ","b","y"," ">> \o b \o <<" ","t","e","a","m","s">>

\* C27: filling a template leaves the token of every placeholder the registry
\* has no entry for in the text and substitutes every placeholder it has an
\* entry for
C27_UnknownPlaceholderKept ==
  (pure.op = "return" /\ pure.fn = "fill_template")
  => \A k \in DOMAIN pure.template :
       pure.template[k].ph
       => (Contains(pure.value, pure.template[k].text)
             <=> pure.template[k].name \notin DOMAIN IDEA_VARIABLES)

\* {mystery} is still in the text and {industry}, after it, is not
C27_Witness ==
  /\ pure.op = "return"
  /\ pure.fn = "fill_template"
  /\ pure.template = UnknownTemplate
  /\ Contains(pure.value, <<"A"," ","{","m","y","s","t","e","r","y","}"," ","f","o","r"," ">>)
  /\ ~Contains(pure.value, <<"{","i","n","d","u","s","t","r","y","}">>)

\* C22: the idea generate.py has just appended has created_at equal to
\* updated_at
C22_TimestampsEqualAtCreation ==
  (last.op = "generate")
  => saved_ideas[Len(saved_ideas)].created_at = saved_ideas[Len(saved_ideas)].updated_at

C24_FailsExactlyOnEmptyList ==
  /\ (pure.op = "return" /\ pure.fn = "deterministic_choice")
     => (pure.raised <=> pure.options = <<>>)
  /\ Len(IDEA_TEMPLATES) > 0
  /\ \A c \in DOMAIN IDEA_TEMPLATES : Len(IDEA_TEMPLATES[c].templates) > 0
  /\ \A name \in DOMAIN IDEA_VARIABLES : Len(IDEA_VARIABLES[name]) > 0
  /\ \A category \in DOMAIN feature_templates : Len(feature_templates[category]) > 0
  /\ Len(DEFAULT_FEATURES) > 0
  /\ Len(monetization_options) > 0
  /\ Len(audience_options) > 0
  /\ Len(tech_options) > 0

\* the call on the empty list has raised
C24_Witness ==
  /\ pure.op = "return"
  /\ pure.fn = "deterministic_choice"
  /\ pure.options = <<>>
  /\ pure.raised
  /\ pure.value = <<"Z","e","r","o","D","i","v","i","s","i","o","n","E","r","r","o","r">>

\* C25: every step of an iteration run either processes the idea at position
\* idx and moves on to position idx + 1, leaving the state document as it is, or
\* comes after the last idea, writes the state document and ends the run
C25_InOrderThenOneSave ==
  [][pc = "iterating"
     => \/ /\ idx <= Len(state.ideas)
           /\ calls' = calls + 1
           /\ last'.index = idx
           /\ pc' = "iterating"
           /\ idx' = idx + 1
           /\ state_file' = state_file
        \/ /\ idx = Len(state.ideas) + 1
           /\ calls' = calls
           /\ pc' = "idle"
           /\ state_file' # state_file
           /\ saved_ideas' = state.ideas]_vars

\* C26: the feature loop ends after at most 10 choices with at most 3 features,
\* pairwise distinct and all from the pool, and with exactly 3 of them unless it
\* has made all 10 choices
C26_FeatureLoopBounded ==
  (pure.op = "return" /\ pure.fn = "select_features")
  => /\ pure.attempts <= 10
     /\ Len(pure.value) <= 3
     /\ Len(pure.value) = 3 \/ pure.attempts = 10
     /\ \A j \in DOMAIN pure.value : InList(pure.value[j], pure.base_features)
     /\ \A j, k \in DOMAIN pure.value : j # k => pure.value[j] # pure.value[k]

\* a pool of two features: the loop has made all 10 choices and returns both
C26_Witness ==
  /\ pure.op = "return"
  /\ pure.fn = "select_features"
  /\ Len(pure.base_features) = 2
  /\ pure.attempts = 10
  /\ Len(pure.value) = 2

\* the entries a scan ignores
IGNORABLE == {SKIP[k] : k \in DOMAIN SKIP}

\* the files of fsys under project_dir that are neither an ignorable entry nor
\* inside one
ProjectFiles(project_dir, fsys) ==
  {p \in DOMAIN fsys.files :
     /\ IsUnder(p, project_dir)
     /\ \A k \in (Len(project_dir) + 1)..Len(p) : p[k] \notin IGNORABLE}

\* C28: scan_existing_project reports the project as existing exactly when the
\* directory holds a file outside the ignorable entries, and lists every such
\* file
C28_ExistsIffProjectFiles ==
  (pure.op = "return" /\ pure.fn = "scan_existing_project")
  => LET project_files == ProjectFiles(pure.project_dir, pure.fsys)
     IN  /\ pure.value.exists <=> project_files # {}
         /\ \A p \in project_files :
              Tail(str_path(relative_to(p, pure.project_dir))) \in pure.value.files

\* C29: the words of the title are, in order and up to case, the first words
\* of the description (at most 10 of them) after one leading article; the
\* title's first character is not a lower-case letter; every stop-word but the
\* first word is in lower case and every other word is capitalized
C29_TitleFromDescription ==
  (pure.op = "return" /\ pure.fn = "derive_title")
  => LET pieces == split(pure.description)
         stripped == [i \in 1..Len(pieces) |-> strip(pieces[i], PUNCTUATION)]
         words == SelectSeq(stripped, LAMBDA w : w # <<>>)
         skipped == IF words # <<>> /\ lower(words[1]) \in ARTICLES THEN 1 ELSE 0
         rest == Len(words) - skipped
         title == split_on(pure.value, {" "})
     IN  /\ Len(title) <= 10
         /\ Len(title) = IF rest < 10 THEN rest ELSE 10
         /\ \A i \in DOMAIN title : lower(title[i]) = lower(words[skipped + i])
         /\ pure.value # <<>> => pure.value[1] \notin Chars(ascii_lowercase)
         /\ \A i \in DOMAIN title :
              IF lower(title[i]) \in STOP_WORDS
              THEN i > 1 => title[i] = lower(title[i])
              ELSE title[i] = capitalize(title[i])

\* the description of more than ten words with its article gives the ten words
\* after the article
C29_Witness ==
  /\ pure.op = "return"
  /\ pure.fn = "derive_title"
  /\ pure.description = LongDescription
  /\ pure.value
       = <<"O","p","e","n"," ","P","l","a","t","f","o","r","m"," ","t","h","a","t"," ","C","o","n","n","e","c","t","s"," ","V","e","r","i","f","i","e","d"," ","B","u","y","e","r","s"," ","w","i","t","h"," ","T","r","u","s","t","e","d"," ","S","e","l","l","e","r","s"," ","o","f">>

\* C30 as stated: the slug is not empty, has at most 50 characters, and is the
\* title without its characters that are neither alphanumeric nor whitespace,
\* with every run of whitespace turned into one hyphen, in lower case, cut at 50
\* characters; unnamed-project when nothing remains
C30_OnlyAlphanumericsKept ==
  (pure.op = "return" /\ pure.fn = "sanitize_project_name")
  => LET kept == SelectSeq(pure.title, LAMBDA c : c \in ALNUM \cup whitespace)
         slug == Take(lower(sub_whitespace_runs(kept)), 50)
     IN  /\ pure.value # <<>>
         /\ Len(pure.value) <= 50
         /\ pure.value = IF slug # <<>> THEN slug ELSE <<"u","n","n","a","m","e","d","-","p","r","o","j","e","c","t">>

\* C30, amended: the slug is not empty, has at most 50 characters, none of them
\* an upper-case letter, and is made of the words of the title (what whitespace
\* separates once every character that is not alphanumeric, whitespace or a
\* hyphen is gone) in lower case, one hyphen between two words, cut at 50
\* characters; unnamed-project when there is no word
C30_SlugOfTitle ==
  (pure.op = "return" /\ pure.fn = "sanitize_project_name")
  => LET kept == SelectSeq(pure.title, LAMBDA c : c \in ALNUM \cup whitespace \cup {"-"})
         words == split(kept)
         slug == Take(join(<<"-">>, [i \in DOMAIN words |-> lower(words[i])]), 50)
     IN  /\ pure.value # <<>>
         /\ Len(pure.value) <= 50
         /\ \A i \in DOMAIN pure.value :
              pure.value[i] \in Chars(ascii_lowercase) \cup Chars(digits) \cup {"-"}
         /\ pure.value = IF words # <<>> THEN slug ELSE <<"u","n","n","a","m","e","d","-","p","r","o","j","e","c","t">>

\* the title with a hyphen keeps it
C30_Witness ==
  /\ pure.op = "return"
  /\ pure.fn = "sanitize_project_name"
  /\ pure.title = HyphenTitle
  /\ pure.value = <<"a","i","-","p","o","w","e","r","e","d","-","t","o","o","l","-","v","2">>

\* C31: in every reachable state total_runs is the number of ideas, in the
\* document and in the memory of a running iteration; and every idea the
\* deterministic generator made sits at position id and has the content of run
\* count id - 1, so no two of them come from the same seed
C31_RunCountIsIdeaCount ==
  /\ saved_total_runs = Len(saved_ideas)
  /\ pc = "iterating" => state.metadata.total_runs = Len(state.ideas)
  /\ \A i \in DOMAIN saved_ideas :
       LET idea == saved_ideas[i]
       IN  \/ \E remote \in RemoteIdeas \cup {PlainIdea} : idea.description = remote.description
           \/ /\ idea.id = i
              /\ \A key \in DOMAIN fallback_ideas[idea.id - 1] :
                   idea[key] = fallback_ideas[idea.id - 1][key]
              /\ \A j \in DOMAIN saved_ideas :
                   j # i => saved_ideas[j].description # idea.description

\* two ideas of the deterministic generator, of run counts 0 and 1, saved by an
\* iteration run
C31_Witness ==
  /\ Len(saved_ideas) = 2
  /\ saved_total_runs = 2
  /\ saved_total_iterations = 2
  /\ saved_ideas[1].description = fallback_ideas[0].description
  /\ saved_ideas[2].description = fallback_ideas[1].description

\* C32: get_project_dir gives two ideas with different ids different
\* directories, neither inside the other, whatever their titles
C32_DistinctIdsDistinctDirs ==
  (pure.op = "return" /\ pure.fn = "get_project_dir" /\ pure.idea.id # pure.other.id)
  => /\ pure.value # pure.other_value
     /\ ~IsUnder(pure.value, pure.other_value)
     /\ ~IsUnder(pure.other_value, pure.value)

\* ids 1 and 12 with the titles '2 Fast' and 'Fast': idea-1-2-fast and
\* idea-12-fast
C32_Witness ==
  /\ pure.op = "return"
  /\ pure.fn = "get_project_dir"
  /\ pure.idea = [id |-> 1, title |-> <<"2"," ","F","a","s","t">>]
  /\ pure.other = [id |-> 12, title |-> <<"F","a","s","t">>]
  /\ pure.value = PROJECTS_DIR \o <<<<"i","d","e","a","-","1","-","2","-","f","a","s","t">>>>
  /\ pure.other_value = PROJECTS_DIR \o <<<<"i","d","e","a","-","1","2","-","f","a","s","t">>>>

\* the keys of an idea iterate_idea assigns
ITERATED_KEYS == {"iteration", "updated_at", "project_path", "history"}

\* C33: an iterate_idea call leaves every key of its idea other than iteration,
\* updated_at, project_path and history with its value, adds no key but
\* project_path, and so leaves the idea's project directory the same; and no
\* step changes such a key of an idea in the state document
C33_OnlyIterationFieldsChange ==
  [][/\ (pc = "iterating" /\ calls' = calls + 1 /\ pc' = "iterating")
        => LET before == state.ideas[idx]
               after == state'.ideas[idx]
           IN  /\ DOMAIN before \subseteq DOMAIN after
               /\ DOMAIN after \subseteq DOMAIN before \cup {"project_path"}
               /\ \A key \in DOMAIN before \ ITERATED_KEYS : after[key] = before[key]
               /\ get_project_dir(after) = get_project_dir(before)
     /\ \A i \in DOMAIN saved_ideas :
          /\ i \in DOMAIN saved_ideas'
          /\ \A key \in DOMAIN saved_ideas[i] \ ITERATED_KEYS :
               /\ key \in DOMAIN saved_ideas'[i]
               /\ saved_ideas'[i][key] = saved_ideas[i][key]]_vars

\* an idea of the deterministic generator saved after two iterations, with its
\* description and its project path
C33_Witness ==
  /\ Len(saved_ideas) = 1
  /\ saved_ideas[1].iteration = 2
  /\ Len(saved_ideas[1].history) = 2
  /\ "project_path" \in DOMAIN saved_ideas[1]
  /\ saved_ideas[1].description = fallback_ideas[0].description
  /\ saved_ideas[1].title = fallback_ideas[0].title

\* the history entry of a call whose write_project_files raised OSError
IsWriteFailure(entry) ==
  /\ "error" \in DOMAIN entry
  /\ entry.description = <<"C","o","d","e"," ","g","e","n","e","r","a","t","i","o","n"," ","f","a","i","l","e","d",":"," ">> \o OSErrorText

\* C34: a call whose second write fails leaves every file that was on disk and
\* the first file of its own output on disk, advances the idea's iteration and
\* appends an entry flagged as an error, leaves project_path as it was (absent
\* or with its value), and the project directory exists afterwards; and a call
\* on an idea whose last history entry is such a failure finds the project
\* existing
C34_PartialWriteIsKept ==
  [][/\ (/\ pc = "iterating"
         /\ calls' = calls + 1
         /\ pc' = "iterating"
         /\ last'.fault # 0
         /\ "error" \in DOMAIN last'.result
         /\ last'.result.error = OSErrorText)
        => LET before == state.ideas[idx]
               after == state'.ideas[idx]
               dir == get_project_dir(before)
               scan == scan_existing_project(dir, fs)
               files == generate_code(before, scan, FALSE, NoResponse).data.files
               first == resolve(path_join(dir, files[1].path))
           IN  /\ \A p \in DOMAIN fs.files : p \in DOMAIN fs'.files
               /\ ~api_key => /\ first \in DOMAIN fs'.files
                              /\ fs'.files[first].content = files[1].content
               /\ after.iteration = before.iteration + 1
               /\ Len(after.history) = Len(before.history) + 1
               /\ after.history[Len(after.history)].error = TRUE
               /\ after.history[Len(after.history)].iteration = after.iteration
               /\ "project_path" \in DOMAIN after <=> "project_path" \in DOMAIN before
               /\ "project_path" \in DOMAIN before => after.project_path = before.project_path
               /\ scan_existing_project(dir, fs').exists
     /\ (/\ pc = "iterating"
         /\ calls' = calls + 1
         /\ ~get_project_dir_raises(state.ideas[idx])
         /\ state.ideas[idx].history # <<>>
         /\ IsWriteFailure(state.ideas[idx].history[Len(state.ideas[idx].history)]))
        => scan_existing_project(get_project_dir(state.ideas[idx]), fs).exists]_vars

\* the call after a failed write has returned: the first history entry is the
\* failure, the project directory holds all the files of the template, and
\* project_path is set now
C34_Witness ==
  /\ pc = "iterating"
  /\ last.op = "iterate_idea"
  /\ ~last.raised
  /\ Len(state.ideas[last.index].history) = 2
  /\ IsWriteFailure(state.ideas[last.index].history[1])
  /\ "files" \in DOMAIN last.result
  /\ "project_path" \in DOMAIN state.ideas[last.index]

\* C35: a command other than generate.py that finds the state document with no
\* idea is an iteration run that leaves the document (ideas and metadata) and
\* the file system as they are, does not save, and ends at once
C35_EmptyStateUntouched ==
  [][(/\ pc = "idle"
      /\ state_file # <<>>
      /\ saved_ideas = <<>>
      /\ last'.op # "generate")
     => /\ UNCHANGED <<state_file, fs>>
        /\ last'.op = "iterate"
        /\ ~last'.saved
        /\ pc' = "idle"]_vars

\* the run has ended on the document without ideas: no projects directory, no
\* last_iterate, no total_iterations
C35_Witness ==
  /\ last.op = "iterate"
  /\ ~last.saved
  /\ state_file # <<>>
  /\ saved_ideas = <<>>
  /\ PROJECTS_DIR \notin fs.dirs
  /\ DOMAIN state_file[1].metadata = {"created", "total_runs"}

====
